---- MODULE Spec2Model ----
(***************************************************************************)
(* Model of the Semantic Score engine of yn-organicperf-suite:             *)
(*   modules/semantic_score/text_analysis.py  (TextAnalyzer)               *)
(*   modules/semantic_score/engine.py         (SemanticScoreEngine)        *)
(*   core/dataforseo_client.py                (DataForSEOClient)           *)
(*   core/cache.py                            (Cache)                      *)
(*                                                                         *)
(* The module holds one state machine per component.  Every specification  *)
(* drives its own group of variables and leaves the other groups idle:     *)
(*   SpecDedup   TextAnalyzer._dedup_levenshtein                           *)
(*   SpecNgram   TextAnalyzer.get_significant_ngrams and, called on its     *)
(*               own, TextAnalyzer._filter_ngrams_by_relevance             *)
(*   SpecScore   TextAnalyzer.calculate_seo_weighted_score                 *)
(*   SpecEngine  SemanticScoreEngine.analyze_keywords                      *)
(*   SpecRate    DataForSEOClient._async_request, concurrent calls         *)
(*   SpecCache   DataForSEOClient.search_organic_async and core/cache.py   *)
(*                                                                         *)
(* Conventions.  A Python str is a sequence of one-character strings.  A   *)
(* Python dict (insertion ordered) phrase -> frequency is a sequence of    *)
(* records [p |-> phrase, f |-> frequency] with pairwise distinct p.  A    *)
(* float threshold or similarity is an integer number of hundredths, and   *)
(* every comparison of quotients is made exactly, by cross-multiplication. *)
(* None is the string "None".                                              *)
(***************************************************************************)
EXTENDS Integers, Sequences, FiniteSets, TLC

VARIABLES
    \* ---- SpecDedup: one call chain of _dedup_levenshtein
    dIn,        \* the ngrams_dict argument
    dThr,       \* the threshold argument, in hundredths
    dOut,       \* the dict returned for dIn
    dOut2,      \* the dict returned for dOut
    dPc,        \* "input" | "once" | "twice"
    \* ---- SpecNgram: one call of get_significant_ngrams
    nArgs,      \* [text, top_n, bert_threshold, lev_threshold]
    nBert,      \* the embedding provider during the call:
                \*   [loaded, kw_ok, failed_orders, sim]
    nRet,       \* the tuple returned: [sig, final, raw]
    nFilter,    \* the last call of _filter_ngrams_by_relevance:
                \*   [ngrams_dict, keyword_embedding, out]
    nPc,        \* "new" (no TextAnalyzer yet) | "raised" (__init__
                \*   raised) | "input" | "filtered" | "done"
    \* ---- SpecScore: one call of calculate_seo_weighted_score
    sIn,        \* [kw_ok, title, h1, meta_description, h2_tags, h3_tags,
                \*  headings, body_content]
    sOut,       \* the float returned, as a fraction [num, den]
    sPc,        \* "input" | "done"
    \* ---- SpecEngine: one call of SemanticScoreEngine.analyze_keywords
    eIn,        \* the arguments: [keywords, domain, use_onpage, on_progress]
    eIdx,       \* idx of the loop of _async_analyze_all, 0 before the loop
    ePc,        \* where the call is: "loop", a stage of _analyze_keyword,
                \*   "returned"
    eProgress,  \* the calls of on_progress that were made, in order
    eResults,   \* the list results
    eResult,    \* the object result of the running _analyze_keyword
    eOutcome,   \* how the _analyze_keyword of each keyword so far ended:
                \*   "no_results" (line 115), "no_content" (line 145),
                \*   "returned" (line 208) or "raised" (an exception)
    eSerp,      \* search_items
    eTasks,     \* _fetch_all: the keys of tasks that are still to be awaited
    eFetch,     \* _fetch_all: [url_data, url_order, competitor_contents,
                \*   domain_data, ok, started]
    \* ---- SpecRate: concurrent calls of DataForSEOClient._async_request
    rNow,       \* time.time(), in tenths of a second
    rTimestamps,\* self.request_timestamps
    rDaily,     \* self.daily_requests
    rPc,        \* where each task is: "idle" (about to call), "asleep" (in
                \*   the sleep of _rate_limit), "posted" (request sent, no
                \*   response yet), "done"
    rWake,      \* when the sleep of each task that is asleep ends
    rSent,      \* the time at which each request was sent, in order
    \* ---- SpecCache: the calls of search_organic_async, in sequence
    cNow,       \* datetime.now(), in days
    cFiles,     \* the files of cache_dir: name -> [timestamp, value]
    cServed,    \* for each query, the items it last returned and the
                \*   timestamp of the cache entry that held them
    cLast,      \* the last call: [called, q, at, network, ret, prev], prev
                \*   being cServed[q] before the call
    \* ---- SpecWait: one call of DataForSEOClient.wait_for_task
    wArgs,      \* [task_id, on_progress]
    wAttempt,   \* the loop variable attempt
    wReady,     \* ready_ids, the set the last get_tasks_ready returned
    wCalls,     \* the calls made so far: [polls, fetches, progress]
    wRet,       \* "pending", or what the call returned: "None", "empty"
                \*   ([]) or "rows"
    wPc         \* "idle" | "poll" | "sleep" | "returned"

dedupVars == <<dIn, dThr, dOut, dOut2, dPc>>
ngramVars == <<nArgs, nBert, nRet, nFilter, nPc>>
scoreVars == <<sIn, sOut, sPc>>
engineVars ==
    <<eIn, eIdx, ePc, eProgress, eResults, eResult, eOutcome, eSerp, eTasks,
      eFetch>>
rateVars == <<rNow, rTimestamps, rDaily, rPc, rWake, rSent>>
cacheVars == <<cNow, cFiles, cServed, cLast>>
waitVars == <<wArgs, wAttempt, wReady, wCalls, wRet, wPc>>
vars ==
    <<dIn, dThr, dOut, dOut2, dPc, nArgs, nBert, nRet, nFilter, nPc, sIn,
      sOut, sPc, eIn, eIdx, ePc, eProgress, eResults, eResult, eOutcome,
      eSerp, eTasks, eFetch, rNow, rTimestamps, rDaily, rPc, rWake, rSent,
      cNow, cFiles, cServed, cLast, wArgs, wAttempt, wReady, wCalls, wRet,
      wPc>>

\* what each specification leaves idle
notDedupVars ==
    <<ngramVars, scoreVars, engineVars, rateVars, cacheVars, waitVars>>
notNgramVars ==
    <<dedupVars, scoreVars, engineVars, rateVars, cacheVars, waitVars>>
notScoreVars ==
    <<dedupVars, ngramVars, engineVars, rateVars, cacheVars, waitVars>>
notEngineVars ==
    <<dedupVars, ngramVars, scoreVars, rateVars, cacheVars, waitVars>>
notRateVars ==
    <<dedupVars, ngramVars, scoreVars, engineVars, cacheVars, waitVars>>
notCacheVars ==
    <<dedupVars, ngramVars, scoreVars, engineVars, rateVars, waitVars>>
notWaitVars ==
    <<dedupVars, ngramVars, scoreVars, engineVars, rateVars, cacheVars>>

None == "None"

(***************************************************************************)
(* Bounds of the inputs                                                    *)
(***************************************************************************)
NumPhrases == 5       \* how many phrases of PhrasePool the phrase tables draw on
MaxEntries == 3       \* most entries of a phrase table handed to _dedup_levenshtein
MaxFreq == 2          \* largest frequency of an entry
NumTexts == 4         \* how many texts of TextPool get_significant_ngrams is given

(***************************************************************************)
(* Generic helpers                                                         *)
(***************************************************************************)
Min2(a, b) == IF a <= b THEN a ELSE b
Max2(a, b) == IF a >= b THEN a ELSE b

\* the phrases the tables of the input are made of
Phrases ==
    LET \* a Python str, as the sequence of its characters
        PhrasePool ==
            << <<"s", "e", "o">>,
               <<"s", "e", "o", "s">>,
               <<"s", "e", "a">>,
               <<"a", "g", "e", "n", "c", "e">>,
               <<"a", "g", "e", "n", "c", "e", "s">>,
               << >>,
               <<"s", "e">> >>
    IN  {PhrasePool[i] : i \in 1..Min2(NumPhrases, Len(PhrasePool))}

\* the words of the texts; a text is the sequence of the words that
\* re.findall(r"\w+", text.lower()) finds in it
Word ==
    [seo |-> <<"s", "e", "o">>,
     seos |-> <<"s", "e", "o", "s">>,
     sea |-> <<"s", "e", "a">>,
     agence |-> <<"a", "g", "e", "n", "c", "e">>,
     agences |-> <<"a", "g", "e", "n", "c", "e", "s">>,
     les |-> <<"l", "e", "s">>,
     se |-> <<"s", "e">>]

Texts ==
    LET TextPool ==
            << <<Word.seo, Word.seos, Word.seo>>,
               <<Word.agence, Word.seo, Word.les, Word.agences>>,
               <<Word.se, Word.les>>,
               <<Word.seo, Word.sea, Word.seo, Word.sea>>,
               <<Word.agence>>,
               <<Word.sea, Word.se, Word.seo>> >>
    IN  {TextPool[i] : i \in 1..Min2(NumTexts, Len(TextPool))}

KeySet(tbl) == {tbl[i].p : i \in 1..Len(tbl)}

\* ngrams_dict[p], for a key p of the dict
FreqOf(tbl, p) == tbl[CHOOSE i \in 1..Len(tbl) : tbl[i].p = p].f

(***************************************************************************)
(* TextAnalyzer.get_significant_ngrams, lines 196-212: the raw tables      *)
(***************************************************************************)
MIN_WORD_LENGTH == 2
DEFAULT_TOP_N == 50
NgramMult == 5
Orders == {"unigrams", "bigrams", "trigrams"}

\* the values self.terms_to_exclude takes (the empty set when the file of
\* excluded terms is missing)
TermSets == {{}, {Word.sea}}

\* lines 196-201: excluded terms are blanked, then the words that are
\* neither stopwords nor of MIN_WORD_LENGTH characters or fewer are kept
SigWords(text, terms) ==
    LET \* self.stop_words, the stopwords of the language
        StopWords == {Word.les}
    IN
    SelectSeq(SelectSeq(text, LAMBDA w : w \notin terms),
              LAMBDA w : w \notin StopWords /\ Len(w) > MIN_WORD_LENGTH)

\* " ".join(g) for g in nltk.util.ngrams(sig, n), n = 2 and n = 3
Bigrams(sig) ==
    IF Len(sig) >= 2
    THEN [i \in 1..(Len(sig) - 1) |-> sig[i] \o <<" ">> \o sig[i + 1]]
    ELSE <<>>

Trigrams(sig) ==
    IF Len(sig) >= 3
    THEN [i \in 1..(Len(sig) - 2) |->
            sig[i] \o <<" ">> \o sig[i + 1] \o <<" ">> \o sig[i + 2]]
    ELSE <<>>

\* collections.Counter(items): the counts, in order of first occurrence
RECURSIVE CounterOf(_)
CounterOf(items) ==
    IF items = <<>> THEN <<>>
    ELSE LET rest == CounterOf(SubSeq(items, 1, Len(items) - 1))
             x == items[Len(items)]
         IN  IF \E i \in 1..Len(rest) : rest[i].p = x
             THEN [i \in 1..Len(rest) |->
                     IF rest[i].p = x THEN [p |-> x, f |-> rest[i].f + 1]
                     ELSE rest[i]]
             ELSE Append(rest, [p |-> x, f |-> 1])

Take(seq, k) == SubSeq(seq, 1, Min2(k, Len(seq)))

\* the body texts of the pages the engine fetches: "agence seo" n times
\* over, and three other texts
AgenceSeo(n) ==
    [i \in 1..(2 * n) |-> IF i % 2 = 1 THEN Word.agence ELSE Word.seo]
PageText ==
    [x1 |-> AgenceSeo(5),
     a |-> AgenceSeo(4),
     b |-> AgenceSeo(6),
     c |-> AgenceSeo(8),
     x2 |-> <<Word.seo, Word.seos, Word.seo>>,
     d |-> <<Word.agence, Word.seo, Word.les, Word.agences, Word.sea>>]
PageTexts == {PageText[k] : k \in DOMAIN PageText}

\* the n-gram phrases the texts of the input can give
NgramPhrases ==
    UNION {LET sig == SigWords(text, terms)
           IN  {sig[i] : i \in 1..Len(sig)}
                 \cup {Bigrams(sig)[i] : i \in 1..Len(Bigrams(sig))}
                 \cup {Trigrams(sig)[i] : i \in 1..Len(Trigrams(sig))}
           : text \in Texts \cup PageTexts, terms \in TermSets}

(***************************************************************************)
(* Levenshtein.distance(s, t): the edit distance, computed row by row.     *)
(***************************************************************************)
RECURSIVE LevRow(_, _, _, _)
LevRow(prev, c, t, acc) ==
    IF Len(acc) = Len(t) + 1 THEN acc
    ELSE LET j == Len(acc)
         IN  LevRow(prev, c, t,
                    Append(acc,
                           Min2(prev[j + 1] + 1,
                                Min2(acc[j] + 1,
                                     prev[j] + (IF c = t[j] THEN 0 ELSE 1)))))

RECURSIVE LevRows(_, _, _, _)
LevRows(s, t, i, prev) ==
    IF i > Len(s) THEN prev[Len(t) + 1]
    ELSE LevRows(s, t, i + 1, LevRow(prev, s[i], t, <<prev[1] + 1>>))

levenshtein_distance(s, t) ==
    LevRows(s, t, 1, [j \in 1..(Len(t) + 1) |-> j - 1])

\* the distances between the phrases of the inputs, computed once
LevTable ==
    LET AllPhrases == Phrases \cup NgramPhrases
    IN  [p \in AllPhrases |->
            [q \in AllPhrases |-> levenshtein_distance(p, q)]]

\* 1 - (dist / maxl) >= threshold, threshold in hundredths, maxl > 0
SimilarAtLeast(p1, p2, threshold) ==
    LET maxl == Max2(Len(p1), Len(p2))
        dist == LevTable[p1][p2]
    IN  100 * (maxl - dist) >= threshold * maxl

(***************************************************************************)
(* sorted(d, key=lambda x: d[x], reverse=True): a stable sort, so entries  *)
(* of equal frequency keep their iteration order.                          *)
(***************************************************************************)
RECURSIVE InsertByFreq(_, _)
InsertByFreq(sorted, e) ==
    IF sorted = <<>> THEN <<e>>
    ELSE IF Head(sorted).f >= e.f
         THEN <<Head(sorted)>> \o InsertByFreq(Tail(sorted), e)
         ELSE <<e>> \o sorted

RECURSIVE StableSortDesc(_)
StableSortDesc(tbl) ==
    IF tbl = <<>> THEN <<>>
    ELSE InsertByFreq(StableSortDesc(SubSeq(tbl, 1, Len(tbl) - 1)), tbl[Len(tbl)])

\* sorted(d, key=...)[::-1]: ascending, then reversed, which also reverses
\* the entries of equal frequency
RECURSIVE SortAscReversed(_)
SortAscReversed(tbl) ==
    IF tbl = <<>> THEN <<>>
    ELSE InsertByFreq(SortAscReversed(Tail(tbl)), Head(tbl))

\* no sort at all: the phrases in the iteration order of the dict
KeepInsertionOrder(tbl) == tbl

SortByFreqDesc(tbl) == StableSortDesc(tbl)

\* the dict raw of lines 208-212
RawNgrams(sig, top_n) ==
    LET \* Counter(items).most_common(k)
        MostCommon(items, k) == Take(StableSortDesc(CounterOf(items)), k)
    IN
    [unigrams |-> MostCommon(sig, top_n * NgramMult),
     bigrams  |-> MostCommon(Bigrams(sig), top_n * NgramMult),
     trigrams |-> MostCommon(Trigrams(sig), top_n * NgramMult)]

(***************************************************************************)
(* TextAnalyzer._dedup_levenshtein                                         *)
(***************************************************************************)

RECURSIVE DedupLoop(_, _, _, _, _)
DedupLoop(phrases, i, deduped, removed, threshold) ==
    LET \* the inner loop over j: the later phrases that p1 = phrases[i] absorbs
        Absorbed ==
            {phrases[j].p : j \in {k \in (i + 1)..Len(phrases) :
                /\ phrases[k].p \notin removed
                /\ Max2(Len(phrases[i].p), Len(phrases[k].p)) # 0
                /\ SimilarAtLeast(phrases[i].p, phrases[k].p, threshold)}}
    IN
    IF i > Len(phrases) THEN deduped
    ELSE IF phrases[i].p \in removed
         THEN DedupLoop(phrases, i + 1, deduped, removed, threshold)
         ELSE DedupLoop(phrases, i + 1, Append(deduped, phrases[i]),
                        removed \cup Absorbed,
                        threshold)

\* _dedup_levenshtein without the test "if p1 in removed: continue"
DedupNoSkip(ngrams_dict, threshold) == SortByFreqDesc(ngrams_dict)

dedup_levenshtein(ngrams_dict, threshold) ==
    IF ngrams_dict = <<>> THEN <<>>
    ELSE DedupLoop(SortByFreqDesc(ngrams_dict), 1, <<>>, {}, threshold)

(***************************************************************************)
(* The BERT provider.  loaded: bert_model is not None.  kw_ok: the         *)
(* embedding of the keyword raises nothing.  failed_orders: the n-gram     *)
(* orders whose batch embedding raises (or whose cosine_similarity raises  *)
(* ValueError).  sim: the cosine similarity, in hundredths, between the    *)
(* embedding of the keyword and that of each phrase.                       *)
(***************************************************************************)
DEFAULT_BERT_THRESHOLD == 50

\* TextAnalyzer._bert_embed
bert_embed(bert) ==
    IF ~bert.loaded THEN None
    ELSE IF bert.kw_ok THEN "kw_emb" ELSE None

\* TextAnalyzer._bert_embed_batch, for the phrases of one order
bert_embed_batch(bert, ng_type, texts) ==
    IF ~bert.loaded \/ texts = <<>> THEN None
    ELSE IF ng_type \in bert.failed_orders THEN None ELSE "pe"

\* _filter_ngrams_by_relevance with the comparison turned around
\* (score < threshold keeps the phrase)
FilterInverted(ngrams_dict, keyword_embedding, threshold, bert) ==
    IF ~bert.loaded \/ keyword_embedding = None THEN ngrams_dict
    ELSE [t \in Orders |->
            IF ngrams_dict[t] = <<>> THEN <<>>
            ELSE IF bert_embed_batch(bert, t, ngrams_dict[t]) = None
                 THEN ngrams_dict[t]
                 ELSE SelectSeq(ngrams_dict[t],
                                LAMBDA e : bert.sim[e.p] < threshold)]

\* _filter_ngrams_by_relevance returning, at line 130, the dict filtered it
\* has yet to build instead of ngrams_dict
FilterReturnsEmpty(ngrams_dict, keyword_embedding, threshold, bert) ==
    IF ~bert.loaded \/ keyword_embedding = None
    THEN [t \in Orders |-> <<>>]
    ELSE [t \in Orders |->
            IF ngrams_dict[t] = <<>> THEN <<>>
            ELSE IF bert_embed_batch(bert, t, ngrams_dict[t]) = None
                 THEN ngrams_dict[t]
                 ELSE SelectSeq(ngrams_dict[t],
                                LAMBDA e : bert.sim[e.p] >= threshold)]

\* TextAnalyzer._filter_ngrams_by_relevance
filter_ngrams_by_relevance(ngrams_dict, keyword_embedding, threshold, bert) ==
    IF ~bert.loaded \/ keyword_embedding = None THEN ngrams_dict
    ELSE [t \in Orders |->
            IF ngrams_dict[t] = <<>> THEN <<>>
            ELSE IF bert_embed_batch(bert, t, ngrams_dict[t]) = None
                 THEN ngrams_dict[t]
                 ELSE SelectSeq(ngrams_dict[t],
                                LAMBDA e : bert.sim[e.p] >= threshold)]

\* TextAnalyzer.get_significant_ngrams
get_significant_ngrams(args, bert) ==
    LET sig == SigWords(args.text, args.terms)
        raw == RawNgrams(sig, args.top_n)
        kw_emb == bert_embed(bert)
        relevant == IF kw_emb # None
                    THEN filter_ngrams_by_relevance(raw, kw_emb,
                                                    args.bert_threshold, bert)
                    ELSE raw
        final == [t \in Orders |->
                    IF relevant[t] # <<>>
                    THEN Take(StableSortDesc(
                                 dedup_levenshtein(relevant[t], args.lev_threshold)),
                              args.top_n)
                    ELSE <<>>]
    IN  [sig |-> sig, final |-> final, raw |-> final]

(***************************************************************************)
(* Fractions: a Python float that is a quotient is the fraction            *)
(* [num, den], den > 0, in lowest terms.                                   *)
(***************************************************************************)
RECURSIVE GCD(_, _)
GCD(a, b) == IF b = 0 THEN a ELSE GCD(b, a % b)

Frac(n, d) ==
    LET Abs(x) == IF x < 0 THEN -x ELSE x
        g == GCD(Abs(n), d)
    IN  [num |-> n \div g, den |-> d \div g]

FracLe(a, b) == a.num * b.den <= b.num * a.den
FracAdd(a, b) == Frac(a.num * b.den + b.num * a.den, a.den * b.den)
FracSub(a, b) == Frac(a.num * b.den - b.num * a.den, a.den * b.den)
FracDivInt(a, k) == Frac(a.num, a.den * k)
Zero == Frac(0, 1)

(***************************************************************************)
(* TextAnalyzer.calculate_seo_weighted_score.  A field is the record      *)
(* [str, cos, ok]: str is None, "" , " " (whitespace only) or "text"; cos  *)
(* is the cosine similarity, in hundredths, between the embedding of the   *)
(* keyword and the embedding of the text; ok is FALSE when encoding the    *)
(* text raises.  h2_tags and h3_tags are [isNone, items], each item None,  *)
(* "", " " or "h"; the text that joins the headings embeds as the record   *)
(* headings.                                                               *)
(***************************************************************************)

\* the dict weights of lines 253-259, in hundredths
Weights ==
    [title |-> 25, h1 |-> 20, meta_description |-> 15, headings |-> 15,
     body |-> 25]

Blank == {None, "", " "}

\* if text and text.strip()
NonBlank(text) == text.str \notin Blank

\* lines 283-288: the headings that are neither None nor blank, joined
HeadingsText(h2_tags, h3_tags) ==
    (IF ~h2_tags.isNone /\ h2_tags.items # <<>>
     THEN SelectSeq(h2_tags.items, LAMBDA h : h \notin Blank) ELSE <<>>)
        \o (IF ~h3_tags.isNone /\ h3_tags.items # <<>>
            THEN SelectSeq(h3_tags.items, LAMBDA h : h \notin Blank) ELSE <<>>)

NoText(str) == [str |-> str, cos |-> 0, ok |-> TRUE]

\* the argument of each call of _score, None for the call that is not made
ScoreArg(inp, key) ==
    CASE key = "title" -> inp.title
      [] key = "h1" -> inp.h1
      [] key = "meta_description" -> inp.meta_description
      [] key = "headings" ->
            IF HeadingsText(inp.h2_tags, inp.h3_tags) # <<>>
            THEN inp.headings ELSE NoText(None)
      [] key = "body" -> inp.body_content

\* the keys of the dict scores once every call of _score has been made
ScoredKeys(inp) ==
    LET FieldKeys == <<"title", "h1", "meta_description", "headings", "body">>
    IN
    {FieldKeys[i] : i \in {j \in 1..Len(FieldKeys) :
        /\ NonBlank(ScoreArg(inp, FieldKeys[j]))
        /\ ScoreArg(inp, FieldKeys[j]).ok}}

\* s = max(0, cosine_similarity(...)) of line 273
FieldScore(inp, key) == Max2(0, ScoreArg(inp, key).cos)

RECURSIVE SumOver(_, _)
SumOver(S, f) ==
    IF S = {} THEN 0
    ELSE LET x == CHOOSE y \in S : TRUE
         IN  f[x] + SumOver(S \ {x}, f)

\* min(100.0, max(0.0, x))
Clamp100(x) ==
    IF FracLe(x, Zero) THEN Zero
    ELSE IF FracLe(Frac(100, 1), x) THEN Frac(100, 1) ELSE x

\* calculate_seo_weighted_score with no clamp: neither max(0, .) on the
\* similarity of a field nor min(100.0, max(0.0, .)) on the result
SeoScoreUnclamped(inp) ==
    IF ~inp.kw_ok THEN Zero
    ELSE LET keys == ScoredKeys(inp)
             total_w == SumOver(keys, Weights)
         IN  IF keys = {} \/ total_w = 0 THEN Zero
             ELSE Frac(SumOver(keys, [k \in keys |->
                          ScoreArg(inp, k).cos * Weights[k]]), total_w)

\* calculate_seo_weighted_score where total_w is the sum of all the weights
SeoScorePhantomZero(inp) ==
    IF ~inp.kw_ok THEN Zero
    ELSE LET keys == ScoredKeys(inp)
             total_w == SumOver(DOMAIN Weights, Weights)
         IN  IF keys = {} \/ total_w = 0 THEN Zero
             ELSE Clamp100(Frac(SumOver(keys, [k \in keys |->
                          FieldScore(inp, k) * Weights[k]]), total_w))

\* calculate_seo_weighted_score with total_w += weights[key] ahead of the
\* try of _score: a field whose embedding raises still weighs in total_w
SeoScoreCountsFailed(inp) ==
    IF ~inp.kw_ok THEN Zero
    ELSE LET keys == ScoredKeys(inp)
             tried == {k \in DOMAIN Weights : NonBlank(ScoreArg(inp, k))}
             total_w == SumOver(tried, Weights)
         IN  IF keys = {} \/ total_w = 0 THEN Zero
             ELSE Clamp100(Frac(SumOver(keys, [k \in keys |->
                          FieldScore(inp, k) * Weights[k]]), total_w))

\* the value returned: weighted * 100 is the sum over the scored keys of
\* scores[k] * (weights[k] / total_w), times 100
calculate_seo_weighted_score(inp) ==
    IF ~inp.kw_ok THEN Zero
    ELSE LET keys == ScoredKeys(inp)
             total_w == SumOver(keys, Weights)
         IN  IF keys = {} \/ total_w = 0 THEN Zero
             ELSE Clamp100(Frac(SumOver(keys, [k \in keys |->
                          FieldScore(inp, k) * Weights[k]]), total_w))

(***************************************************************************)
(* SpecDedup: dedup(T, t), then dedup of its own output                    *)
(***************************************************************************)
\* thresholds in hundredths; DEFAULT_LEVENSHTEIN_THRESHOLD is 0.85
DEFAULT_LEVENSHTEIN_THRESHOLD == 85

DedupInit ==
    LET LevThresholds == {0, 50, 60, DEFAULT_LEVENSHTEIN_THRESHOLD, 101}
        \* every dict str -> int of at most n entries, in every insertion order
        Tables(P, n, maxf) ==
            {t \in UNION {[1..k -> [p : P, f : 1..maxf]] : k \in 0..n} :
                \A i, j \in 1..Len(t) : i # j => t[i].p # t[j].p}
    IN
    /\ dIn \in Tables(Phrases, MaxEntries, MaxFreq)
    /\ dThr \in LevThresholds
    /\ dOut = None
    /\ dOut2 = None
    /\ dPc = "input"

DedupIdle ==
    /\ dIn = <<>>
    /\ dThr = 0
    /\ dOut = None
    /\ dOut2 = None
    /\ dPc = "idle"

DedupCall ==
    /\ dPc = "input"
    /\ dOut' = dedup_levenshtein(dIn, dThr)
    /\ dPc' = "once"
    /\ UNCHANGED <<dIn, dThr, dOut2>>
    /\ UNCHANGED notDedupVars

DedupCallAgain ==
    /\ dPc = "once"
    /\ dOut2' = dedup_levenshtein(dOut, dThr)
    /\ dPc' = "twice"
    /\ UNCHANGED <<dIn, dThr, dOut>>
    /\ UNCHANGED notDedupVars

DedupNext == DedupCall \/ DedupCallAgain

(***************************************************************************)
(* SpecNgram: a TextAnalyzer is made, then one call of                     *)
(* get_significant_ngrams                                                  *)
(***************************************************************************)

NgramInit ==
    LET SimVals == {30, DEFAULT_BERT_THRESHOLD}
        \* the phrases of the raw tables of a call
        RawPhrases(args) ==
            LET raw == RawNgrams(SigWords(args.text, args.terms), args.top_n)
            IN  UNION {KeySet(raw[t]) : t \in Orders}
        NgramLevThresholds == {60, DEFAULT_LEVENSHTEIN_THRESHOLD}
        TopNs == {1, DEFAULT_TOP_N}
    IN
    /\ nArgs \in [text : Texts, terms : TermSets, top_n : TopNs,
                  bert_threshold : {DEFAULT_BERT_THRESHOLD},
                  lev_threshold : NgramLevThresholds]
    /\ \E loaded \in BOOLEAN, kw_ok \in BOOLEAN, failed \in SUBSET Orders :
         \E sim \in [RawPhrases(nArgs) -> SimVals] :
            nBert = [loaded |-> loaded, kw_ok |-> kw_ok,
                     failed_orders |-> failed, sim |-> sim]
    /\ nRet = None
    /\ nFilter = None
    /\ nPc = "new"

NgramIdle ==
    /\ nArgs = None
    /\ nBert = None
    /\ nRet = None
    /\ nFilter = None
    /\ nPc = "idle"

\* TextAnalyzer.__init__ (called by SemanticScoreEngine.__init__, line 25):
\* SentenceTransformer(...) of lines 52-54 is outside any try, so a model
\* that cannot be loaded raises out of the constructor; the BERT model is
\* loaded inside the try of lines 57-71, and nBert.loaded tells how that
\* went
NewTextAnalyzer ==
    /\ nPc = "new"
    /\ \E embedding_model_loaded \in BOOLEAN :
          nPc' = IF embedding_model_loaded THEN "input" ELSE "raised"
    /\ UNCHANGED <<nArgs, nBert, nRet, nFilter>>
    /\ UNCHANGED notNgramVars

NgramCall ==
    /\ nPc = "input"
    /\ nRet' = get_significant_ngrams(nArgs, nBert)
    /\ nPc' = "done"
    /\ UNCHANGED <<nArgs, nBert, nFilter>>
    /\ UNCHANGED notNgramVars

\* a call of _filter_ngrams_by_relevance on the raw tables of the text,
\* with whatever embedding of the keyword the caller holds; the filter can
\* be called again
FilterCall ==
    /\ nPc \in {"input", "filtered"}
    /\ \E keyword_embedding \in {None, "kw_emb"} :
          LET ngrams_dict ==
                  RawNgrams(SigWords(nArgs.text, nArgs.terms), nArgs.top_n)
          IN  nFilter' =
                  [ngrams_dict |-> ngrams_dict,
                   keyword_embedding |-> keyword_embedding,
                   out |-> filter_ngrams_by_relevance(
                               ngrams_dict, keyword_embedding,
                               nArgs.bert_threshold, nBert)]
    /\ nPc' = "filtered"
    /\ UNCHANGED <<nArgs, nBert, nRet>>
    /\ UNCHANGED notNgramVars

NgramNext == NewTextAnalyzer \/ NgramCall \/ FilterCall

(***************************************************************************)
(* SpecScore: one call of calculate_seo_weighted_score                     *)
(***************************************************************************)

\* a text and what the embedding model makes of it
EmbeddedTexts ==
    LET CosVals == {-100, -50, 40, 100}
    IN
    [str : {"text"}, cos : CosVals, ok : {TRUE}]
        \cup [str : {"text"}, cos : {40}, ok : {FALSE}]
List(items) == [isNone |-> FALSE, items |-> items]

ScoreInit ==
    LET HeadingLists ==
            LET NoList == [isNone |-> TRUE, items |-> <<>>]
            IN
            { <<NoList, NoList>>, <<List(<<>>), List(<<" ", "">>)>>,
              <<List(<<"h">>), NoList>>, <<List(<<"", "h">>), List(<<"h", None>>)>> }
        FieldVals == {NoText(b) : b \in Blank} \cup EmbeddedTexts
    IN
    /\ \E kw_ok \in BOOLEAN, title \in FieldVals, h1 \in FieldVals,
          meta \in FieldVals, body \in FieldVals, hl \in HeadingLists :
         \E headings \in (IF HeadingsText(hl[1], hl[2]) # <<>>
                          THEN EmbeddedTexts ELSE {NoText(None)}) :
            sIn = [kw_ok |-> kw_ok, title |-> title, h1 |-> h1,
                   meta_description |-> meta, h2_tags |-> hl[1],
                   h3_tags |-> hl[2], headings |-> headings,
                   body_content |-> body]
    /\ sOut = None
    /\ sPc = "input"

ScoreIdle ==
    /\ sIn = None
    /\ sOut = None
    /\ sPc = "idle"

ScoreCall ==
    /\ sPc = "input"
    /\ sOut' = calculate_seo_weighted_score(sIn)
    /\ sPc' = "done"
    /\ UNCHANGED sIn
    /\ UNCHANGED notScoreVars

ScoreNext == ScoreCall

(***************************************************************************)
(* SemanticScoreEngine: the values it handles.  An Optional value has one  *)
(* shape whether it is None or not: a score or a mean is a fraction, None  *)
(* being NoScore; a content is [isNone, words, questions, cos], words the  *)
(* words of the text, questions what the pattern of extract_questions      *)
(* finds in it, cos its cosine similarity to the keyword in hundredths; a  *)
(* rank is an integer, None being NoPos.                                   *)
(***************************************************************************)
NoScore == [num |-> 0, den |-> 0]
NoPos == -1
NoContent == [isNone |-> TRUE, words |-> <<>>, questions |-> <<>>, cos |-> 0]

\* if content: neither None nor the empty string
Truthy(content) == ~content.isNone /\ content.words # <<>>

Text(cos) == [str |-> "text", cos |-> cos, ok |-> TRUE]

\* URLs and the tracked domain
Url ==
    [x1 |-> <<"X", ".", "f", "r", "/", "1">>,
     x2 |-> <<"x", ".", "f", "r", "/", "2">>,
     a |-> <<"a", ".", "i", "o">>,
     b |-> <<"b", ".", "i", "o">>,
     c |-> <<"c", ".", "i", "o">>,
     d |-> <<"d", ".", "i", "o">>]
NoUrl == <<>>
NoDomain == <<>>

Lower(s) ==
    LET \* str.lower(), over the characters of the URLs and of the domain
        LowerChar(c) ==
            CASE c = "X" -> "x"
              [] c = "F" -> "f"
              [] c = "R" -> "r"
              [] OTHER -> c
    IN  [i \in 1..Len(s) |-> LowerChar(s[i])]

\* needle in hay
Contains(hay, needle) ==
    \E i \in 0..(Len(hay) - Len(needle)) :
        SubSeq(hay, i + 1, i + Len(needle)) = needle

Web ==
    LET \* what _fetch_page_homemade extracts from each page when the page answers:
        \* (text_content, h1, title, meta, h2_tags, h3_tags), and the embedding of
        \* the joined headings
        Page(content, h1, title, meta, h2, h3, headings) ==
            [content |-> content, h1 |-> h1, title |-> title,
             meta_description |-> meta, h2_tags |-> h2, h3_tags |-> h3,
             headings |-> headings]
        Content(words, questions, cos) ==
            [isNone |-> FALSE, words |-> words, questions |-> questions, cos |-> cos]
    IN
    (Url.x1 :> Page(Content(PageText.x1, <<"q1">>, 100), Text(100), Text(40),
                  NoText(None), List(<<"h">>), List(<<>>), Text(40)))
    @@ (Url.x2 :> Page(Content(PageText.x2, <<>>, 40), NoText(None), Text(100),
                     NoText(""), List(<<>>), List(<<>>), NoText(None)))
    @@ (Url.a :> Page(Content(PageText.a, <<>>, 40), NoText(None), Text(-50),
                    Text(40), List(<<>>), List(<<"h", " ">>), Text(100)))
    @@ (Url.b :> Page(Content(PageText.b, <<"q2">>, 100), Text(40), NoText(None),
                    NoText(None), List(<<>>), List(<<>>), NoText(None)))
    @@ (Url.c :> Page(Content(PageText.c, <<>>, -50), Text(-100), Text(-50),
                    NoText(None), List(<<>>), List(<<>>), NoText(None)))
    @@ (Url.d :> Page(Content(PageText.d, <<>>, 40), Text(100), Text(100),
                    Text(100), List(<<"h">>), List(<<"h">>), Text(-50)))

\* a SERP item: type, url (NoUrl when the item has none), rank_absolute,
\* title
Item(type, url, rank) ==
    [type |-> type, url |-> url, rank_absolute |-> rank,
     title |-> [str |-> "serp", cos |-> 0, ok |-> TRUE]]

\* the item sequences the SERP provider answers with
Serp ==
    [example |->
        <<Item("organic", Url.x1, 1), Item("organic", Url.a, 2),
          Item("organic", Url.b, 3), Item("organic", Url.c, 4)>>,
     mixed |->
        <<Item("people_also_ask", NoUrl, 1), Item("organic", Url.d, 2),
          Item("paid", Url.b, 3), Item("organic", Url.x2, 4),
          Item("organic", Url.x1, 5)>>,
     dup |->
        <<Item("organic", Url.a, 1), Item("organic", Url.d, 2),
          Item("organic", Url.a, 3), Item("paid", Url.d, 4)>>,
     short |-> <<Item("organic", Url.x1, 1), Item("organic", Url.a, 2)>>,
     paid |-> <<Item("paid", Url.a, 1)>>,
     snippet |->
        <<Item("featured_snippet", Url.x1, 1), Item("organic", Url.a, 2),
          Item("organic", Url.x1, 3)>>]

(***************************************************************************)
(* DataForSEOClient.parse_content and what it calls.  What the network     *)
(* does to a URL is the record [task, homemade, onpage]:                   *)
(*   homemade  "content": the page answers and trafilatura extracts text;  *)
(*             "nocontent": it answers and no text is extracted;           *)
(*             "none": the request fails                                   *)
(*   onpage    "content" | "nocontent" (no text item) | "blank" (the text  *)
(*             items are whitespace) | "none" (no result) | "raise"        *)
(*   task      "ok": the task returns what parse_content returns;          *)
(*             "raise" | "malformed": it raises, or returns something that *)
(*             is not a 7-tuple                                            *)
(***************************************************************************)
FetchEnvs ==
    { [task |-> "ok", homemade |-> "content", onpage |-> "none"],
      [task |-> "ok", homemade |-> "nocontent", onpage |-> "content"],
      [task |-> "ok", homemade |-> "none", onpage |-> "nocontent"],
      [task |-> "ok", homemade |-> "none", onpage |-> "blank"],
      [task |-> "ok", homemade |-> "nocontent", onpage |-> "none"],
      [task |-> "ok", homemade |-> "none", onpage |-> "raise"],
      [task |-> "raise", homemade |-> "none", onpage |-> "none"],
      [task |-> "malformed", homemade |-> "none", onpage |-> "none"] }

\* the 6-tuples are records; isNone tells the value None from a tuple
NoTuple ==
    [isNone |-> TRUE, content |-> NoContent, h1 |-> NoText(None),
     title |-> NoText(None), meta_description |-> NoText(None),
     h2_tags |-> List(<<>>), h3_tags |-> List(<<>>)]

\* DataForSEOClient._fetch_page_homemade
fetch_page_homemade(url, env) ==
    IF env.homemade = "none" THEN NoTuple
    ELSE [isNone |-> FALSE,
          content |-> IF env.homemade = "content" THEN Web[url].content
                      ELSE NoContent,
          h1 |-> Web[url].h1, title |-> Web[url].title,
          meta_description |-> Web[url].meta_description,
          h2_tags |-> Web[url].h2_tags, h3_tags |-> Web[url].h3_tags]

\* DataForSEOClient.get_onpage_content, when it does not raise
get_onpage_content(url, env) ==
    LET EmptyStr ==
            [isNone |-> FALSE, words |-> <<>>, questions |-> <<>>, cos |-> 0]
    IN
    IF env.onpage \in {"none", "raise"} THEN NoTuple
    ELSE [isNone |-> FALSE,
          content |-> CASE env.onpage = "content" -> Web[url].content
                        [] env.onpage = "blank" -> EmptyStr
                        [] OTHER -> NoContent,
          h1 |-> Web[url].h1, title |-> Web[url].title,
          meta_description |-> NoText(None),
          h2_tags |-> List(<<>>), h3_tags |-> List(<<>>)]

\* DataForSEOClient.parse_content
parse_content(url, use_onpage_api, env) ==
    LET Tagged(tuple, method) ==
            [content |-> tuple.content, h1 |-> tuple.h1, title |-> tuple.title,
             meta_description |-> tuple.meta_description, h2_tags |-> tuple.h2_tags,
             h3_tags |-> tuple.h3_tags, method |-> method]
        result == fetch_page_homemade(url, env)
        fallback == get_onpage_content(url, env)
    IN  IF ~result.isNone /\ Truthy(result.content)
        THEN Tagged(result, "homemade")
        ELSE IF use_onpage_api /\ env.onpage # "raise" /\ ~fallback.isNone
             THEN Tagged(fallback, "onpage")
             ELSE Tagged(NoTuple, "failed")

(***************************************************************************)
(* SemanticScoreEngine._analyze_keyword, lines 117-127, and _fetch_all     *)
(***************************************************************************)
\* lines 117-118
OrganicItems(search_items) ==
    SelectSeq(search_items, LAMBDA i : i.type = "organic" /\ i.url # NoUrl)
UrlsToParse(search_items) ==
    [k \in 1..Len(OrganicItems(search_items)) |->
        OrganicItems(search_items)[k].url]

\* an Optional[str] that holds a URL: [kind, url], kind "none" for None,
\* "url" for a URL and "note" for the text of line 176
NoneUrl == [kind |-> "none", url |-> NoUrl]

MinOf(S) == CHOOSE k \in S : \A j \in S : k <= j

\* lines 120-127 without the test of line 125: the first organic item
FindFirstOrganic(search_items, domain) ==
    LET org == OrganicItems(search_items)
    IN  IF domain = NoDomain \/ org = <<>> THEN NoneUrl
        ELSE [kind |-> "url", url |-> org[1].url]

\* lines 120-127: the first organic item whose URL holds the domain
FindDomainUrl(search_items, domain) ==
    LET SomeUrl(u) == [kind |-> "url", url |-> u]
        org == OrganicItems(search_items)
        hits == {k \in 1..Len(org) :
                    Contains(Lower(org[k].url), Lower(domain))}
    IN  IF domain = NoDomain \/ hits = {} THEN NoneUrl
        ELSE SomeUrl(org[MinOf(hits)].url)

\* the keys of {u: ... for u in urls}, in insertion order
RECURSIVE DictKeys(_)
DictKeys(urls) ==
    IF urls = <<>> THEN <<>>
    ELSE LET rest == DictKeys(SubSeq(urls, 1, Len(urls) - 1))
             u == urls[Len(urls)]
         IN  IF \E i \in 1..Len(rest) : rest[i] = u THEN rest
             ELSE Append(rest, u)

\* _empty_url_data
empty_url_data ==
    [content |-> NoContent, h1 |-> NoText(None), title |-> NoText(None),
     meta_description |-> NoText(None), h2_tags |-> List(<<>>),
     h3_tags |-> List(<<>>), score |-> NoScore, scrape_method |-> "failed"]

\* lines 217-224; texts is appended to together with url_order and is not
\* kept apart from it
FetchStarted(urls) ==
    LET NoDomainData ==
            [isNone |-> TRUE, content |-> NoContent, h1 |-> NoText(None),
             title |-> NoText(None)]
    IN
    [url_data |-> <<>>, url_order |-> <<>>, competitor_contents |-> <<>>,
     domain_data |-> NoDomainData, ok |-> 0, started |-> Len(urls)]

\* lines 227-249: one turn of the loop over tasks.items()
AwaitTask(f, url, domain_url, use_onpage, env) ==
    LET \* d[k] = v on a dict that is a function
        Put(d, k, v) == [x \in DOMAIN d \cup {k} |-> IF x = k THEN v ELSE d[x]]
        is_dom == domain_url.kind = "url" /\ url = domain_url.url
        res == parse_content(url, use_onpage, env)
        has == Truthy(res.content)
    IN  IF env.task # "ok"
        THEN [f EXCEPT !.url_data = Put(@, url, empty_url_data)]
        ELSE [url_data |->
                 Put(f.url_data, url,
                     [content |-> res.content, h1 |-> res.h1,
                      title |-> res.title,
                      meta_description |-> res.meta_description,
                      h2_tags |-> res.h2_tags, h3_tags |-> res.h3_tags,
                      score |-> NoScore, scrape_method |-> res.method]),
              url_order |-> IF has THEN Append(f.url_order, url)
                            ELSE f.url_order,
              competitor_contents |->
                 IF has /\ ~is_dom
                 THEN Append(f.competitor_contents,
                             [url |-> url, content |-> res.content])
                 ELSE f.competitor_contents,
              domain_data |->
                 IF is_dom
                 THEN [isNone |-> FALSE, content |-> res.content,
                       h1 |-> res.h1, title |-> res.title]
                 ELSE f.domain_data,
              ok |-> IF has THEN f.ok + 1 ELSE f.ok,
              started |-> f.started]

(***************************************************************************)
(* core/models.py: SemanticScoreResult and IndividualURLResult.  A dict    *)
(* order -> table is a function on the orders it holds, {} being <<>>;     *)
(* ngram_differential is [isNone, d]; refined_ngrams and seo_brief are     *)
(* "unset" until lines 186-205 assign them.                                *)
(***************************************************************************)
NoDiff == [isNone |-> TRUE, d |-> <<>>]

SemanticScoreResult(keyword, error) ==
    [keyword |-> keyword, domain_position |-> NoPos, domain_url |-> NoneUrl,
     domain_score |-> NoScore, domain_content |-> NoContent,
     domain_h1 |-> NoText(None), domain_title |-> NoText(None),
     average_score |-> NoScore, average_competitor_score |-> NoScore,
     domain_ngrams |-> <<>>, average_competitor_ngrams |-> <<>>,
     keyword_density |-> NoScore, faq_questions |-> <<>>,
     ngram_differential |-> NoDiff, raw_ngrams_context |-> <<>>,
     top_results |-> <<>>, error |-> error,
     refined_ngrams |-> "unset", seo_brief |-> "unset"]

IndividualURLResult(url, position, title) ==
    [url |-> url, position |-> position, title |-> title,
     meta_description |-> NoText(None), semantic_score |-> NoScore,
     h1 |-> NoText(None), h2_tags |-> List(<<>>), h3_tags |-> List(<<>>),
     body_content |-> NoContent, word_count |-> 0, scrape_method |-> None]

\* list.sort(key=lambda x: x.position): stable, ascending
RECURSIVE SortByPosition(_)
SortByPosition(l) ==
    IF l = <<>> THEN <<>>
    ELSE LET rest == SortByPosition(SubSeq(l, 1, Len(l) - 1))
             e == l[Len(l)]
             k == Cardinality({i \in 1..Len(rest) :
                                  rest[i].position <= e.position})
         IN  SubSeq(rest, 1, k) \o <<e>> \o SubSeq(rest, k + 1, Len(rest))

\* lines 139-143: the entries of the early return of line 145
Placeholders(search_items) ==
    LET its == SelectSeq(search_items,
                         LAMBDA i : i.url # NoUrl /\ i.rank_absolute # NoPos)
    IN  SortByPosition([k \in 1..Len(its) |->
            IndividualURLResult(its[k].url, its[k].rank_absolute,
                                its[k].title)])

(***************************************************************************)
(* _analyze_keyword, lines 148-164: the score of every URL of url_order    *)
(***************************************************************************)

\* the scoring stage left out: no URL is given a score
ScoreNothing(url_data, url_order) == url_data

ScoreAll(url_data, url_order) ==
    LET ScoreInput(url, d) ==
            LET \* the argument body_content=d.get("content")
                BodyField(content) ==
                    IF content.isNone THEN NoText(None)
                    ELSE IF content.words = <<>> THEN NoText("")
                    ELSE Text(content.cos)
            IN
            [kw_ok |-> TRUE, title |-> d.title, h1 |-> d.h1,
             meta_description |-> d.meta_description, h2_tags |-> d.h2_tags,
             h3_tags |-> d.h3_tags,
             headings |-> IF HeadingsText(d.h2_tags, d.h3_tags) # <<>>
                          THEN Web[url].headings ELSE NoText(None),
             body_content |-> BodyField(d.content)]
    IN
    [u \in DOMAIN url_data |->
        IF \E k \in 1..Len(url_order) : url_order[k] = u
        THEN [url_data[u] EXCEPT
                 !.score = calculate_seo_weighted_score(
                               ScoreInput(u, url_data[u]))]
        ELSE url_data[u]]

(***************************************************************************)
(* SemanticScoreEngine._populate_results                                   *)
(***************************************************************************)
RECURSIVE FracSum(_)
FracSum(l) ==
    IF l = <<>> THEN Zero
    ELSE FracAdd(FracSum(SubSeq(l, 1, Len(l) - 1)), l[Len(l)])

\* line 268 skipping the URLs that have no score as well
ListedScored(search_items, url_data) ==
    SelectSeq(search_items,
              LAMBDA i : /\ i.url # NoUrl
                         /\ i.url \in DOMAIN url_data
                         /\ i.rank_absolute # NoPos
                         /\ url_data[i.url].score # NoScore)

\* the items of search_items that line 268 does not skip
Listed(search_items, url_data) ==
    SelectSeq(search_items,
              LAMBDA i : /\ i.url # NoUrl
                         /\ i.url \in DOMAIN url_data
                         /\ i.rank_absolute # NoPos)

populate_results(result, search_items, url_data, domain_url) ==
    LET PageEntry(item, d) ==
            LET \* d.get("title") or item.get("title")
                TitleOr(title, other) == IF title.str \in {None, ""} THEN other ELSE title
            IN
            [url |-> item.url, position |-> item.rank_absolute,
             title |-> TitleOr(d.title, item.title),
             meta_description |-> d.meta_description, semantic_score |-> d.score,
             h1 |-> d.h1, h2_tags |-> d.h2_tags, h3_tags |-> d.h3_tags,
             body_content |-> d.content,
             word_count |-> IF Truthy(d.content) THEN Len(d.content.words) ELSE 0,
             scrape_method |-> d.scrape_method]
        ScoresOf(entries) ==
            LET scored == SelectSeq(entries, LAMBDA e : e.semantic_score # NoScore)
            IN  [k \in 1..Len(scored) |-> scored[k].semantic_score]
        \* sum(l) / len(l) if l else 0.0
        MeanOrZero(l) == IF l = <<>> THEN Zero ELSE FracDivInt(FracSum(l), Len(l))
        its == Listed(search_items, url_data)
        entries == [k \in 1..Len(its) |->
                       PageEntry(its[k], url_data[its[k].url])]
        all_scores == ScoresOf(entries)
        comp_scores ==
            ScoresOf(SelectSeq(entries,
                LAMBDA e : ~(domain_url.kind = "url"
                             /\ e.url = domain_url.url)))
    IN  [result EXCEPT
            !.top_results = SortByPosition(result.top_results \o entries),
            !.average_score = MeanOrZero(all_scores),
            !.average_competitor_score = MeanOrZero(comp_scores)]

(***************************************************************************)
(* The TextAnalyzer of the engine: BERT loaded; a phrase that holds the    *)
(* word "sea" is below the relevance threshold, every other one is at it.  *)
(***************************************************************************)

\* what the call returns for the text of each page, computed once
PageNgramsTable ==
    LET \* get_significant_ngrams(content, keyword, bert_threshold=bt,
        \* lev_threshold=lt), with the thresholds analyze_keywords defaults to
        PageArgs(words) ==
            [text |-> words, terms |-> {}, top_n |-> DEFAULT_TOP_N,
             bert_threshold |-> DEFAULT_BERT_THRESHOLD,
             lev_threshold |-> DEFAULT_LEVENSHTEIN_THRESHOLD]
        EngineBert ==
            [loaded |-> TRUE, kw_ok |-> TRUE, failed_orders |-> {},
             sim |-> [p \in NgramPhrases |->
                         IF Contains(p, Word.sea) THEN 30 ELSE DEFAULT_BERT_THRESHOLD]]
    IN
    [words \in PageTexts |->
        get_significant_ngrams(PageArgs(words), EngineBert)]

PageNgrams(content) == PageNgramsTable[content.words]

\* the keywords
Kw == [seo |-> Word.seo, agence_seo |-> Word.agence \o <<" ">> \o Word.seo]

\* " ".join(words)
RECURSIVE JoinWords(_)
JoinWords(words) ==
    IF words = <<>> THEN <<>>
    ELSE IF Len(words) = 1 THEN words[1]
    ELSE words[1] \o <<" ">> \o JoinWords(Tail(words))

\* str.count(sub): the occurrences that do not overlap, from the left
RECURSIVE CountFrom(_, _, _)
CountFrom(hay, needle, i) ==
    IF i + Len(needle) - 1 > Len(hay) THEN 0
    ELSE IF SubSeq(hay, i, i + Len(needle) - 1) = needle
         THEN 1 + CountFrom(hay, needle, i + Len(needle))
         ELSE CountFrom(hay, needle, i + 1)

\* TextAnalyzer.calculate_keyword_density
calculate_keyword_density(text, word) ==
    LET total == Len(text.words)
    IN  IF total = 0 THEN Zero
        ELSE Frac(100 * CountFrom(Lower(JoinWords(text.words)),
                                  Lower(word), 1), total)

\* TextAnalyzer.extract_questions
extract_questions(text) == text.questions

(***************************************************************************)
(* SemanticScoreEngine._analyze_domain                                     *)
(***************************************************************************)
analyze_domain(result, keyword, domain_url, domain_data, search_items, url_data) ==
    LET hits == {k \in 1..Len(search_items) :
                    search_items[k].url = domain_url.url}
        r1 == [result EXCEPT
                 !.domain_position =
                     IF hits = {} THEN NoPos
                     ELSE search_items[MinOf(hits)].rank_absolute,
                 !.domain_url = domain_url,
                 !.domain_score =
                     IF domain_url.url \in DOMAIN url_data
                     THEN url_data[domain_url.url].score ELSE NoScore,
                 !.domain_content = domain_data.content,
                 !.domain_h1 = domain_data.h1,
                 !.domain_title = domain_data.title]
        ret == PageNgrams(domain_data.content)
    IN  IF Truthy(domain_data.content)
        THEN [r1 EXCEPT
                !.domain_ngrams = ret.final,
                !.raw_ngrams_context = ret.raw,
                !.keyword_density =
                    calculate_keyword_density(domain_data.content, keyword),
                !.faq_questions = extract_questions(domain_data.content)]
        ELSE r1

(***************************************************************************)
(* SemanticScoreEngine._analyze_competitor_ngrams                          *)
(***************************************************************************)
\* lines 345-347 for one order of one page: acc[p] = acc.get(p, 0) + f
RECURSIVE AddTable(_, _)
AddTable(acc, tbl) ==
    IF tbl = <<>> THEN acc
    ELSE LET e == tbl[1]
             acc1 == IF e.p \in KeySet(acc)
                     THEN [i \in 1..Len(acc) |->
                             IF acc[i].p = e.p
                             THEN [p |-> e.p, f |-> acc[i].f + e.f]
                             ELSE acc[i]]
                     ELSE Append(acc, e)
         IN  AddTable(acc1, Tail(tbl))

RECURSIVE SumTables(_, _)
SumTables(ngram_results, t) ==
    IF ngram_results = <<>> THEN <<>>
    ELSE AddTable(SumTables(SubSeq(ngram_results, 1, Len(ngram_results) - 1),
                            t),
                  ngram_results[Len(ngram_results)][t])

\* a divisor that counts only the pages whose table holds the phrase
CountContaining(ngram_results, t, p) ==
    Cardinality({k \in 1..Len(ngram_results) :
                    p \in KeySet(ngram_results[k][t])})

\* count, the divisor of total / count for the phrase p of the order t
AverageCount(ngram_results, t, p) == Len(ngram_results)

analyze_competitor_ngrams(result, comp_contents) ==
    LET ngram_results == [k \in 1..Len(comp_contents) |->
                             PageNgrams(comp_contents[k].content).final]
        all_freq == [t \in Orders |-> SumTables(ngram_results, t)]
        average == [t \in Orders |->
                      [i \in 1..Len(all_freq[t]) |->
                          [p |-> all_freq[t][i].p,
                           f |-> Frac(all_freq[t][i].f,
                                      AverageCount(ngram_results, t,
                                                   all_freq[t][i].p))]]]
    IN  IF comp_contents = <<>>
        THEN [result EXCEPT !.average_competitor_ngrams = <<>>]
        ELSE [result EXCEPT
                !.average_competitor_ngrams = average,
                !.raw_ngrams_context =
                    IF result.raw_ngrams_context = <<>>
                       /\ \E t \in Orders : all_freq[t] # <<>>
                    THEN all_freq ELSE @]

(***************************************************************************)
(* SemanticScoreEngine._calculate_diff                                     *)
(***************************************************************************)
\* dom.get(p, 0) and avg.get(p, 0), as fractions
DomGet(tbl, p) == IF p \in KeySet(tbl) THEN Frac(FreqOf(tbl, p), 1) ELSE Zero
AvgGet(tbl, p) == IF p \in KeySet(tbl) THEN FreqOf(tbl, p) ELSE Zero

\* d.get(t, {})
TableOf(d, t) == IF t \in DOMAIN d THEN d[t] ELSE <<>>

\* _calculate_diff over the phrases of the domain table only
DiffDomainOnly(result) ==
    IF result.domain_ngrams = <<>> \/ result.average_competitor_ngrams = <<>>
    THEN [result EXCEPT !.ngram_differential = NoDiff]
    ELSE LET diff == [t \in DOMAIN result.domain_ngrams |->
                        LET dom == TableOf(result.domain_ngrams, t)
                            avg == TableOf(result.average_competitor_ngrams, t)
                        IN  [p \in KeySet(dom) |->
                                FracSub(DomGet(dom, p), AvgGet(avg, p))]]
         IN  [result EXCEPT
                !.ngram_differential = [isNone |-> FALSE, d |-> diff]]

calculate_diff(result) ==
    IF result.domain_ngrams = <<>> \/ result.average_competitor_ngrams = <<>>
    THEN [result EXCEPT !.ngram_differential = NoDiff]
    ELSE LET all_types == DOMAIN result.domain_ngrams
                            \cup DOMAIN result.average_competitor_ngrams
             diff == [t \in all_types |->
                        LET dom == TableOf(result.domain_ngrams, t)
                            avg == TableOf(result.average_competitor_ngrams, t)
                        IN  [p \in KeySet(dom) \cup KeySet(avg) |->
                                FracSub(DomGet(dom, p), AvgGet(avg, p))]]
         IN  [result EXCEPT
                !.ngram_differential = [isNone |-> FALSE, d |-> diff]]

(***************************************************************************)
(* SpecEngine: one call of analyze_keywords.  A list of one keyword is     *)
(* analysed against every answer of the SERP provider and of the network;  *)
(* a longer list against the answers of LeanSerps and LeanFetchEnvs.       *)
(***************************************************************************)
MaxKeywords == 2

\* what search_organic_async may return: an item sequence, <<>> standing
\* for both [] and None
SerpAnswers(keywords) ==
    LET LeanSerps == {<<>>, Serp.short}
        Serps ==
            {<<>>, Serp.example, Serp.mixed, Serp.dup, Serp.short, Serp.paid,
             Serp.snippet}
    IN  IF Len(keywords) <= 1 THEN Serps ELSE LeanSerps

FetchAnswers(keywords) ==
    LET LeanFetchEnvs ==
            { [task |-> "ok", homemade |-> "content", onpage |-> "none"],
              [task |-> "ok", homemade |-> "none", onpage |-> "none"] }
    IN
    IF Len(keywords) <= 1 THEN FetchEnvs ELSE LeanFetchEnvs

\* the arguments of analyze_keywords; use_onpage changes nothing under
\* LeanFetchEnvs, so that a longer list is given use_onpage=True only
EngineInputs ==
    LET D_x == <<"x", ".", "F", "R">>
        KeywordLists ==
            UNION {[1..n -> {Kw.seo, Kw.agence_seo}] : n \in 0..MaxKeywords}
    IN
    {i \in [keywords : KeywordLists, domain : {D_x, NoDomain},
            use_onpage : BOOLEAN, on_progress : BOOLEAN] :
        Len(i.keywords) > 1 => i.use_onpage}

EngineInit ==
    /\ eIn \in EngineInputs
    /\ eIdx = 0
    /\ ePc = "loop"
    /\ eProgress = <<>>
    /\ eResults = <<>>
    /\ eResult = None
    /\ eOutcome = <<>>
    /\ eSerp = <<>>
    /\ eTasks = <<>>
    /\ eFetch = FetchStarted(<<>>)

EngineIdle ==
    /\ eIn = None
    /\ eIdx = 0
    /\ ePc = "idle"
    /\ eProgress = <<>>
    /\ eResults = <<>>
    /\ eResult = None
    /\ eOutcome = <<>>
    /\ eSerp = <<>>
    /\ eTasks = <<>>
    /\ eFetch = None

\* kw and domain_url of the running _analyze_keyword
Keyword == eIn.keywords[eIdx]
DomainUrl == FindDomainUrl(eSerp, eIn.domain)

\* the loop head with enumerate(keywords) in place of
\* enumerate(keywords, 1): on_progress is handed idx - 1
LoopStepFromZero ==
    /\ ePc = "loop"
    /\ eIdx < Len(eIn.keywords)
    /\ eIdx' = eIdx + 1
    /\ eProgress' =
          IF eIn.on_progress
          THEN Append(eProgress, [idx |-> eIdx,
                                  total |-> Len(eIn.keywords),
                                  kw |-> eIn.keywords[eIdx + 1]])
          ELSE eProgress
    /\ eResult' = SemanticScoreResult(eIn.keywords[eIdx + 1], None)
    /\ eSerp' = <<>>
    /\ eTasks' = <<>>
    /\ eFetch' = FetchStarted(<<>>)
    /\ ePc' = "search"
    /\ UNCHANGED <<eIn, eResults, eOutcome>>
    /\ UNCHANGED notEngineVars

\* _async_analyze_all, lines 76-78, and _analyze_keyword, line 105
LoopStep ==
    /\ ePc = "loop"
    /\ eIdx < Len(eIn.keywords)
    /\ eIdx' = eIdx + 1
    /\ eProgress' =
          IF eIn.on_progress
          THEN Append(eProgress, [idx |-> eIdx + 1,
                                  total |-> Len(eIn.keywords),
                                  kw |-> eIn.keywords[eIdx + 1]])
          ELSE eProgress
    /\ eResult' = SemanticScoreResult(eIn.keywords[eIdx + 1], None)
    /\ eSerp' = <<>>
    /\ eTasks' = <<>>
    /\ eFetch' = FetchStarted(<<>>)
    /\ ePc' = "search"
    /\ UNCHANGED <<eIn, eResults, eOutcome>>
    /\ UNCHANGED notEngineVars

\* _async_analyze_all, lines 90-91
Return ==
    /\ ePc = "loop"
    /\ eIdx = Len(eIn.keywords)
    /\ ePc' = "returned"
    /\ UNCHANGED <<eIn, eIdx, eProgress, eResults, eResult, eOutcome, eSerp, eTasks,
                   eFetch>>
    /\ UNCHANGED notEngineVars

\* the stages of _analyze_keyword that call code which may raise, and
\* whether the stage makes such a call
CallsOut ==
    CASE ePc = "search" -> TRUE
      [] ePc = "score" -> TRUE
      [] ePc = "domain" ->
            /\ DomainUrl.kind = "url"
            /\ ~eFetch.domain_data.isNone
            /\ Truthy(eFetch.domain_data.content)
      [] ePc = "competitors" -> eFetch.competitor_contents # <<>>
      [] OTHER -> FALSE

\* the exception leaves _async_analyze_all as well: no result is appended
\* and the loop is over
RaiseAborts ==
    /\ CallsOut
    /\ ePc' = "returned"
    /\ UNCHANGED <<eIn, eIdx, eProgress, eResults, eResult, eOutcome, eSerp,
                   eTasks, eFetch>>
    /\ UNCHANGED notEngineVars

\* an exception leaves _analyze_keyword: _async_analyze_all, lines 85-88
Raise ==
    /\ CallsOut
    /\ eResults' = Append(eResults, SemanticScoreResult(Keyword, "exception"))
    /\ eOutcome' = Append(eOutcome, "raised")
    /\ ePc' = "loop"
    /\ UNCHANGED <<eIn, eIdx, eProgress, eResult, eSerp, eTasks, eFetch>>
    /\ UNCHANGED notEngineVars

\* the search stage without the return of line 115: the error is set and
\* the analysis goes on to the fetch
SearchGoesOn ==
    /\ ePc = "search"
    /\ \E items \in SerpAnswers(eIn.keywords) :
          /\ eSerp' = items
          /\ eResult' =
                IF items = <<>>
                THEN [eResult EXCEPT !.error = "No search results found."]
                ELSE eResult
    /\ ePc' = "fetch"
    /\ UNCHANGED <<eIn, eIdx, eProgress, eResults, eOutcome, eTasks, eFetch>>
    /\ UNCHANGED notEngineVars

\* _analyze_keyword, lines 109-115; the result returned is appended by
\* line 84
Search ==
    /\ ePc = "search"
    /\ \E items \in SerpAnswers(eIn.keywords) :
          /\ eSerp' = items
          /\ IF items = <<>>
             THEN /\ eResult' = [eResult EXCEPT
                                    !.error = "No search results found."]
                  /\ eResults' = Append(eResults, eResult')
                  /\ eOutcome' = Append(eOutcome, "no_results")
                  /\ ePc' = "loop"
             ELSE /\ ePc' = "fetch"
                  /\ UNCHANGED <<eResult, eResults, eOutcome>>
    /\ UNCHANGED <<eIn, eIdx, eProgress, eTasks, eFetch>>
    /\ UNCHANGED notEngineVars

\* _fetch_all, lines 217-224: every task is created
FetchStart ==
    /\ ePc = "fetch"
    /\ eTasks' = DictKeys(UrlsToParse(eSerp))
    /\ eFetch' = FetchStarted(UrlsToParse(eSerp))
    /\ ePc' = "await"
    /\ UNCHANGED <<eIn, eIdx, eProgress, eResults, eResult, eSerp, eOutcome>>
    /\ UNCHANGED notEngineVars

\* the loop of lines 226-249 without the except branch and the else of
\* line 246: a task that fails ends the loop
FetchAwaitStopsOnFailure ==
    /\ ePc = "await"
    /\ eTasks # <<>>
    /\ \E env \in FetchAnswers(eIn.keywords) :
          /\ eFetch' = AwaitTask(eFetch, Head(eTasks), DomainUrl,
                                 eIn.use_onpage, env)
          /\ eTasks' = IF env.task = "ok" THEN Tail(eTasks) ELSE <<>>
    /\ UNCHANGED <<eIn, eIdx, ePc, eProgress, eResults, eResult,
                   eSerp, eOutcome>>
    /\ UNCHANGED notEngineVars

\* _fetch_all, lines 226-249: the next task is awaited
FetchAwait ==
    /\ ePc = "await"
    /\ eTasks # <<>>
    /\ \E env \in FetchAnswers(eIn.keywords) :
          eFetch' = AwaitTask(eFetch, Head(eTasks), DomainUrl,
                              eIn.use_onpage, env)
    /\ eTasks' = Tail(eTasks)
    /\ UNCHANGED <<eIn, eIdx, ePc, eProgress, eResults, eResult,
                   eSerp, eOutcome>>
    /\ UNCHANGED notEngineVars

\* _fetch_all returns; _analyze_keyword, lines 134-145
FetchDone ==
    /\ ePc = "await"
    /\ eTasks = <<>>
    /\ IF eFetch.url_order = <<>>
       THEN /\ eResult' =
                 [eResult EXCEPT
                    !.error = "Could not retrieve content for any URL.",
                    !.top_results = Placeholders(eSerp)]
            /\ eResults' = Append(eResults, eResult')
            /\ eOutcome' = Append(eOutcome, "no_content")
            /\ ePc' = "loop"
       ELSE /\ ePc' = "score"
            /\ UNCHANGED <<eResult, eResults, eOutcome>>
    /\ UNCHANGED <<eIn, eIdx, eProgress, eSerp, eTasks, eFetch>>
    /\ UNCHANGED notEngineVars

\* _analyze_keyword, lines 148-164
Score ==
    /\ ePc = "score"
    /\ eFetch' = [eFetch EXCEPT
                     !.url_data = ScoreAll(eFetch.url_data, eFetch.url_order)]
    /\ ePc' = "populate"
    /\ UNCHANGED <<eIn, eIdx, eProgress, eResults, eResult, eSerp,
                   eTasks, eOutcome>>
    /\ UNCHANGED notEngineVars

\* _analyze_keyword, line 167
Populate ==
    /\ ePc = "populate"
    /\ eResult' = populate_results(eResult, eSerp, eFetch.url_data, DomainUrl)
    /\ ePc' = "domain"
    /\ UNCHANGED <<eIn, eIdx, eProgress, eResults, eSerp, eTasks,
                   eFetch, eOutcome>>
    /\ UNCHANGED notEngineVars

\* _analyze_keyword, lines 170-176
Domain ==
    LET \* the text of line 176
        NotFoundNote == [kind |-> "note", url |-> NoUrl]
    IN
    /\ ePc = "domain"
    /\ eResult' =
          IF DomainUrl.kind = "url" /\ ~eFetch.domain_data.isNone
          THEN analyze_domain(eResult, Keyword, DomainUrl, eFetch.domain_data,
                              eSerp, eFetch.url_data)
          ELSE IF eIn.domain # NoDomain
               THEN [eResult EXCEPT !.domain_url = NotFoundNote]
               ELSE eResult
    /\ ePc' = "competitors"
    /\ UNCHANGED <<eIn, eIdx, eProgress, eResults, eSerp, eTasks,
                   eFetch, eOutcome>>
    /\ UNCHANGED notEngineVars

\* _analyze_keyword, line 179
Competitors ==
    /\ ePc = "competitors"
    /\ eResult' = analyze_competitor_ngrams(eResult, eFetch.competitor_contents)
    /\ ePc' = "diff"
    /\ UNCHANGED <<eIn, eIdx, eProgress, eResults, eSerp, eTasks,
                   eFetch, eOutcome>>
    /\ UNCHANGED notEngineVars

\* _analyze_keyword, line 182
Diff ==
    /\ ePc = "diff"
    /\ eResult' = calculate_diff(eResult)
    /\ ePc' = "refine"
    /\ UNCHANGED <<eIn, eIdx, eProgress, eResults, eSerp, eTasks,
                   eFetch, eOutcome>>
    /\ UNCHANGED notEngineVars

\* _analyze_keyword, lines 185-194: refine_ngrams returns a list or None,
\* or raises, which leaves None
Refine ==
    /\ ePc = "refine"
    /\ \E out \in {"refined", None} :
          eResult' = [eResult EXCEPT !.refined_ngrams = out]
    /\ ePc' = "brief"
    /\ UNCHANGED <<eIn, eIdx, eProgress, eResults, eSerp, eTasks,
                   eFetch, eOutcome>>
    /\ UNCHANGED notEngineVars

\* _analyze_keyword, lines 197-208, and the append of line 84
Brief ==
    /\ ePc = "brief"
    /\ \E out \in {"brief", None} :
          eResult' = [eResult EXCEPT !.seo_brief = out]
    /\ eResults' = Append(eResults, eResult')
    /\ eOutcome' = Append(eOutcome, "returned")
    /\ ePc' = "loop"
    /\ UNCHANGED <<eIn, eIdx, eProgress, eSerp, eTasks, eFetch>>
    /\ UNCHANGED notEngineVars

EngineNext ==
    \/ LoopStep
    \/ Return
    \/ Raise
    \/ Search
    \/ FetchStart
    \/ FetchAwait
    \/ FetchDone
    \/ Score
    \/ Populate
    \/ Domain
    \/ Competitors
    \/ Diff
    \/ Refine
    \/ Brief

(***************************************************************************)
(* SpecRate: DataForSEOClient._async_request called by concurrent tasks    *)
(* of one event loop (the OnPage fallbacks of the URLs that _fetch_all     *)
(* fetches together).  Times are tenths of a second.  A task runs from one *)
(* suspension point to the next in one step: _rate_limit suspends in       *)
(* asyncio.sleep only, session.post suspends until the response is there.  *)
(***************************************************************************)
NumCallers == 3
MaxTicks == 3

\* _rate_limit, lines 74-77, at the time now: the timestamps it keeps and
\* the wait it computes, 0 when the list is shorter than 30
rate_limit(timestamps, now) ==
    LET kept == SelectSeq(timestamps, LAMBDA t : now - t <= 600)
    IN  [timestamps |-> kept,
         wait |-> IF Len(kept) >= 30
                  THEN 600 - (now - kept[1]) + 1
                  ELSE 0]

\* request_timestamps after n requests made one after the other and
\* answered with status 200 at time 0, then NumCallers tasks about to call
\* _async_request
RateInit ==
    /\ rNow = 0
    /\ \E n \in {0, 29, 30} :
          /\ rTimestamps = [i \in 1..n |-> 0]
          /\ rSent = [i \in 1..n |-> 0]
          /\ rDaily = n
    /\ rPc = [c \in 1..NumCallers |-> "idle"]
    /\ rWake = [c \in 1..NumCallers |-> 0]

RateIdle ==
    /\ rNow = 0
    /\ rTimestamps = <<>>
    /\ rSent = <<>>
    /\ rDaily = 0
    /\ rPc = <<>>
    /\ rWake = <<>>

\* _async_request, lines 84-91, up to its first suspension: _rate_limit
\* returns at once and the request is posted, or _rate_limit sleeps
Request(c) ==
    /\ rPc[c] = "idle"
    /\ LET r == rate_limit(rTimestamps, rNow)
       IN  /\ rTimestamps' = r.timestamps
           /\ IF r.wait > 0
              THEN /\ rPc' = [rPc EXCEPT ![c] = "asleep"]
                   /\ rWake' = [rWake EXCEPT ![c] = rNow + r.wait]
                   /\ UNCHANGED rSent
              ELSE /\ rPc' = [rPc EXCEPT ![c] = "posted"]
                   /\ rSent' = Append(rSent, rNow)
                   /\ UNCHANGED rWake
    /\ UNCHANGED <<rNow, rDaily>>
    /\ UNCHANGED notRateVars

\* asyncio.sleep(wait) is over: _rate_limit returns (line 79) and the
\* request is posted, lines 85-91
Wake(c) ==
    /\ rPc[c] = "asleep"
    /\ rNow >= rWake[c]
    /\ rPc' = [rPc EXCEPT ![c] = "posted"]
    /\ rSent' = Append(rSent, rNow)
    /\ UNCHANGED <<rNow, rTimestamps, rDaily, rWake>>
    /\ UNCHANGED notRateVars

\* the response is there, lines 92-103: status 200 or not (an exception
\* counting as not)
Respond(c) ==
    /\ rPc[c] = "posted"
    /\ \E status200 \in BOOLEAN :
          IF status200
          THEN /\ rTimestamps' = Append(rTimestamps, rNow)
               /\ rDaily' = rDaily + 1
          ELSE UNCHANGED <<rTimestamps, rDaily>>
    /\ rPc' = [rPc EXCEPT ![c] = "done"]
    /\ UNCHANGED <<rNow, rSent, rWake>>
    /\ UNCHANGED notRateVars

\* time.time() moves on, by 30.1 s
Tick ==
    /\ rNow < MaxTicks * 301
    /\ rNow' = rNow + 301
    /\ UNCHANGED <<rTimestamps, rSent, rDaily, rPc, rWake>>
    /\ UNCHANGED notRateVars

RateNext ==
    \/ \E c \in 1..NumCallers : Request(c)
    \/ \E c \in 1..NumCallers : Wake(c)
    \/ \E c \in 1..NumCallers : Respond(c)
    \/ Tick

(***************************************************************************)
(* core/cache.py and DataForSEOClient.search_organic_async: the SERP       *)
(* queries of one client, one after the other.  The clock counts days; a   *)
(* timestamp written by isoformat() is read back by fromisoformat() as the *)
(* same instant, and the items, which come from a JSON response, are read  *)
(* back by json.load as they were written by json.dump.                    *)
(***************************************************************************)
\* Cache.__init__, line 12: the default of expiration_days
expiration_days == 7

\* the last day of the clock
MaxDays == 8

\* the queries: [keyword, language, country, num_results]
Queries ==
    LET Q(kw, n) ==
            [keyword |-> kw, language |-> <<"f", "r">>, country |-> 2250,
             num_results |-> n]
    IN  {Q(<<"c">>, 10), Q(<<"c", "+", "+">>, 10), Q(<<"c">>, 20)}

\* search_organic_async, line 214: the f-string
cache_key(q) ==
    LET digit == <<"1", "2", "3", "4", "5", "6", "7", "8", "9">>
        \* str(n), n >= 0
        RECURSIVE IntStr(_)
        IntStr(n) ==
            LET d == IF n % 10 = 0 THEN "0" ELSE digit[n % 10]
            IN  IF n < 10 THEN <<d>> ELSE Append(IntStr(n \div 10), d)
    IN  <<"s", "e", "a", "r", "c", "h", "_">> \o q.keyword \o <<"_">>
            \o q.language \o <<"_">> \o IntStr(q.country) \o <<"_">>
            \o IntStr(q.num_results)

\* Cache._get_cache_file: safe_key, the name of the file in cache_dir
get_cache_file(key) ==
    LET alnum == {"a", "b", "c", "d", "e", "f", "g", "h", "i", "j", "k",
                  "l", "m", "n", "o", "p", "q", "r", "s", "t", "u", "v",
                  "w", "x", "y", "z", "0", "1", "2", "3", "4", "5", "6",
                  "7", "8", "9"}
    IN  SelectSeq(key, LAMBDA x : x \in alnum \/ x \in {".", "_", "-", " "})

\* no call yet
NoCall ==
    [called |-> FALSE,
     q |-> [keyword |-> <<>>, language |-> <<>>, country |-> 0,
            num_results |-> 0],
     at |-> 0, network |-> FALSE,
     ret |-> [isNone |-> TRUE, items |-> <<>>],
     prev |-> [stamp |-> -1, items |-> <<>>]]

CacheInit ==
    /\ cNow = 0
    /\ cFiles = <<>>
    /\ cServed = [q \in Queries |-> [stamp |-> -1, items |-> <<>>]]
    /\ cLast = NoCall

CacheIdle ==
    /\ cNow = 0
    /\ cFiles = <<>>
    /\ cServed = <<>>
    /\ cLast = NoCall

\* DataForSEOClient.search_organic_async (with Cache.get and Cache.set):
\* one call, from the cache or from the network
Query(q) ==
    LET cache_file == get_cache_file(cache_key(q))
        exists == cache_file \in DOMAIN cFiles
        \* Cache.get, line 29
        expired ==
            exists /\ cNow - cFiles[cache_file].timestamp > expiration_days
        \* Cache.get, lines 30 and 23: os.remove
        after_get ==
            IF expired
            THEN [f \in DOMAIN cFiles \ {cache_file} |-> cFiles[f]]
            ELSE cFiles
        \* Cache.get returns data["value"] or None
        hit == exists /\ ~expired /\ cFiles[cache_file].value # <<>>
        \* _async_request and lines 227-239: the items of the response, no
        \* item, or a request that fails
        Responses ==
            { [ok |-> TRUE, items |-> Serp.short],
              [ok |-> TRUE, items |-> Serp.paid],
              [ok |-> TRUE, items |-> <<>>],
              [ok |-> FALSE, items |-> <<>>] }
        Served(ret, stamp) ==
            IF ret.items # <<>>
            THEN [cServed EXCEPT ![q] = [stamp |-> stamp, items |-> ret.items]]
            ELSE cServed
        Called(ret, network) ==
            [called |-> TRUE, q |-> q, at |-> cNow, network |-> network,
             ret |-> ret, prev |-> cServed[q]]
    IN
    /\ IF hit
       THEN LET ret == [isNone |-> FALSE, items |-> cFiles[cache_file].value]
            IN  /\ cFiles' = after_get
                /\ cServed' = Served(ret, cFiles[cache_file].timestamp)
                /\ cLast' = Called(ret, FALSE)
       ELSE \E resp \in Responses :
               LET ret == [isNone |-> ~resp.ok, items |-> resp.items]
               IN  /\ cFiles' =
                         IF resp.ok /\ resp.items # <<>>
                         \* Cache.set
                         THEN [f \in DOMAIN after_get \cup {cache_file} |->
                                  IF f = cache_file
                                  THEN [timestamp |-> cNow,
                                        value |-> resp.items]
                                  ELSE after_get[f]]
                         ELSE after_get
                   /\ cServed' = Served(ret, cNow)
                   /\ cLast' = Called(ret, TRUE)
    /\ UNCHANGED cNow
    /\ UNCHANGED notCacheVars

\* datetime.now(): a day, or the expiry period, goes by
Advance ==
    /\ \E d \in {1, expiration_days} :
          /\ cNow + d <= MaxDays
          /\ cNow' = cNow + d
    /\ UNCHANGED <<cFiles, cServed, cLast>>
    /\ UNCHANGED notCacheVars

CacheNext == (\E q \in Queries : Query(q)) \/ Advance

\* C29: two queries that differ in keyword, language, country or result
\* count never share a cache entry: a call answered from the cache returns
\* the items last obtained and stored for that very query.
C29_NoSharedCacheEntry ==
    (cLast.called /\ ~cLast.network) =>
        /\ cLast.prev.stamp >= 0
        /\ cLast.ret.items = cLast.prev.items

(***************************************************************************)
(* DataForSEOClient.wait_for_task (SpecWait)                               *)
(***************************************************************************)
\* config/settings.py
MAX_RETRIES == 40

\* the task ids the API may report ready: the task waited for and another
TaskIds == {"t1", "t2"}

\* before the call
WaitInit ==
    /\ wArgs = [task_id |-> "", on_progress |-> FALSE]
    /\ wAttempt = 0
    /\ wReady = {}
    /\ wCalls = [polls |-> 0, fetches |-> 0, progress |-> 0]
    /\ wRet = "pending"
    /\ wPc = "call"

WaitIdle ==
    /\ wArgs = [task_id |-> "", on_progress |-> FALSE]
    /\ wAttempt = 0
    /\ wReady = {}
    /\ wCalls = [polls |-> 0, fetches |-> 0, progress |-> 0]
    /\ wRet = "pending"
    /\ wPc = "idle"

\* wait_for_task(task_id, on_progress): the call enters the loop
WaitCall ==
    /\ wPc = "call"
    /\ \E task_id \in TaskIds, on_progress \in BOOLEAN :
          wArgs' = [task_id |-> task_id, on_progress |-> on_progress]
    /\ wAttempt' = 0
    /\ wPc' = "poll"
    /\ UNCHANGED <<wReady, wCalls, wRet>>
    /\ UNCHANGED notWaitVars

\* the poll that never takes the task for ready
PollNeverReady ==
    /\ wPc = "poll"
    /\ wAttempt < MAX_RETRIES
    /\ \E ready_ids \in SUBSET TaskIds : wReady' = ready_ids
    /\ wCalls' = [wCalls EXCEPT !.polls = @ + 1]
    /\ wPc' = "sleep"
    /\ UNCHANGED <<wArgs, wAttempt, wRet>>
    /\ UNCHANGED notWaitVars

\* lines 418-423: one turn of the loop up to the sleep. get_tasks_ready
\* returns the ids the API lists (set() when the request fails);
\* get_task_result returns None, [] or the flattened rows
Poll ==
    /\ wPc = "poll"
    /\ wAttempt < MAX_RETRIES
    /\ \E ready_ids \in SUBSET TaskIds :
          /\ wReady' = ready_ids
          /\ IF wArgs.task_id \in ready_ids
             THEN /\ \E result \in {"None", "empty", "rows"} : wRet' = result
                  /\ wCalls' =
                        [polls |-> wCalls.polls + 1,
                         fetches |-> wCalls.fetches + 1,
                         progress |-> wCalls.progress
                                        + IF wArgs.on_progress THEN 1 ELSE 0]
                  /\ wPc' = "returned"
             ELSE /\ wRet' = wRet
                  /\ wCalls' =
                        [polls |-> wCalls.polls + 1,
                         fetches |-> wCalls.fetches,
                         progress |-> wCalls.progress
                                        + IF wArgs.on_progress THEN 1 ELSE 0]
                  /\ wPc' = "sleep"
    /\ UNCHANGED <<wArgs, wAttempt>>
    /\ UNCHANGED notWaitVars

\* line 424: time.sleep(RETRY_DELAY) ends and the loop goes on
Sleep ==
    /\ wPc = "sleep"
    /\ wAttempt' = wAttempt + 1
    /\ wPc' = "poll"
    /\ UNCHANGED <<wArgs, wReady, wCalls, wRet>>
    /\ UNCHANGED notWaitVars

\* lines 425-426: range(MAX_RETRIES) is used up
GiveUp ==
    /\ wPc = "poll"
    /\ wAttempt >= MAX_RETRIES
    /\ wRet' = "None"
    /\ wPc' = "returned"
    /\ UNCHANGED <<wArgs, wAttempt, wReady, wCalls>>
    /\ UNCHANGED notWaitVars

WaitNext == WaitCall \/ Poll \/ Sleep \/ GiveUp

(***************************************************************************)
(* Claims on wait_for_task (SpecWait)                                      *)
(***************************************************************************)
\* what holds in every state of a call of wait_for_task
WaitIsBounded ==
    /\ wCalls.polls <= MAX_RETRIES
    \* a poll that did not end the call did not report the task ready
    /\ (wPc \in {"poll", "sleep"} /\ wCalls.polls > 0) =>
          (wArgs.task_id \notin wReady /\ wCalls.fetches = 0)
    /\ wPc = "returned" =>
          \/ /\ wArgs.task_id \in wReady
             /\ wCalls.fetches = 1
          \/ /\ wArgs.task_id \notin wReady
             /\ wCalls.polls = MAX_RETRIES
             /\ wCalls.fetches = 0
             /\ wRet = "None"

\* C30: wait_for_task always terminates: it makes at most MAX_RETRIES
\* readiness polls, returns at the first poll that reports the task ready,
\* having fetched the result of the task exactly once, and returns None
\* when no poll of the MAX_RETRIES reports it ready.
C30_WaitTerminates == []WaitIsBounded /\ <>(wPc = "returned")

\* the task is reported ready at the last poll of the loop
C30_Witness ==
    /\ wPc = "returned"
    /\ wCalls.polls = MAX_RETRIES
    /\ wArgs.task_id \in wReady
    /\ wCalls.fetches = 1

(***************************************************************************)
(* The specifications                                                      *)
(***************************************************************************)
InitDedup ==
    DedupInit /\ NgramIdle /\ ScoreIdle /\ EngineIdle /\ RateIdle
        /\ CacheIdle /\ WaitIdle
SpecDedup == InitDedup /\ [][DedupNext]_vars

InitNgram ==
    NgramInit /\ DedupIdle /\ ScoreIdle /\ EngineIdle /\ RateIdle
        /\ CacheIdle /\ WaitIdle
SpecNgram == InitNgram /\ [][NgramNext]_vars

InitScore ==
    ScoreInit /\ DedupIdle /\ NgramIdle /\ EngineIdle /\ RateIdle
        /\ CacheIdle /\ WaitIdle
SpecScore == InitScore /\ [][ScoreNext]_vars

InitEngine ==
    EngineInit /\ DedupIdle /\ NgramIdle /\ ScoreIdle /\ RateIdle
        /\ CacheIdle /\ WaitIdle
SpecEngine == InitEngine /\ [][EngineNext]_vars

InitRate ==
    RateInit /\ DedupIdle /\ NgramIdle /\ ScoreIdle /\ EngineIdle
        /\ CacheIdle /\ WaitIdle
SpecRate == InitRate /\ [][RateNext]_vars

InitCache ==
    CacheInit /\ DedupIdle /\ NgramIdle /\ ScoreIdle /\ EngineIdle
        /\ RateIdle /\ WaitIdle
SpecCache == InitCache /\ [][CacheNext]_vars

(***************************************************************************)
(* C2: the output of _dedup_levenshtein holds no two distinct phrases      *)
(* whose normalized edit similarity 1 - distance/max(len) is >= the        *)
(* threshold.                                                              *)
(***************************************************************************)
C2_NoNearDuplicates ==
    dPc \in {"once", "twice"} =>
        \A i, j \in 1..Len(dOut) :
            dOut[i].p # dOut[j].p =>
                ~SimilarAtLeast(dOut[i].p, dOut[j].p, dThr)

\* a table with two near-duplicate phrases was collapsed
C2_Witness ==
    /\ dPc = "once"
    /\ Len(dOut) >= 2
    /\ Len(dOut) < Len(dIn)
    /\ dThr = DEFAULT_LEVENSHTEIN_THRESHOLD

(***************************************************************************)
(* C3: _dedup_levenshtein is idempotent: dedup(dedup(T, t), t) is          *)
(* dedup(T, t), with the same phrases, frequencies and order.              *)
(***************************************************************************)
C3_Idempotent == dPc = "twice" => dOut2 = dOut

\* the second pass ran on an output from which the first pass had removed
\* a phrase while keeping two of equal frequency
C3_Witness ==
    /\ dPc = "twice"
    /\ Len(dOut) < Len(dIn)
    /\ Len(dOut) >= 2
    /\ dOut[1].f = dOut[2].f

(***************************************************************************)
(* C4 as claimed: whenever the BERT provider is available, every phrase of *)
(* every order of the table returned by get_significant_ngrams has         *)
(* similarity to the keyword >= the relevance threshold, also when the     *)
(* embedding of the keyword or the batch embedding of an order fails.      *)
(***************************************************************************)
AllRelevant(tbl) ==
    \A i \in 1..Len(tbl) : nBert.sim[tbl[i].p] >= nArgs.bert_threshold

C4_RelevantWheneverLoaded ==
    (nPc = "done" /\ nBert.loaded) =>
        \A t \in Orders : AllRelevant(nRet.final[t])

(***************************************************************************)
(* C4 as amended: when the provider is loaded and the embedding of the     *)
(* keyword succeeds, every phrase of every order whose batch embedding     *)
(* succeeds has similarity >= the threshold; an order whose batch          *)
(* embedding fails, and every order when the embedding of the keyword      *)
(* fails, is returned unfiltered (deduplicated and truncated only).        *)
(***************************************************************************)
Unfiltered(t) ==
    LET raw == RawNgrams(SigWords(nArgs.text, nArgs.terms), nArgs.top_n)
    IN  IF raw[t] = <<>> THEN <<>>
        ELSE Take(StableSortDesc(dedup_levenshtein(raw[t], nArgs.lev_threshold)),
                  nArgs.top_n)

C4_RelevantWhenEmbedded ==
    (nPc = "done" /\ nBert.loaded) =>
        \A t \in Orders :
            IF nBert.kw_ok /\ t \notin nBert.failed_orders
            THEN AllRelevant(nRet.final[t])
            ELSE nRet.final[t] = Unfiltered(t)

\* the filter dropped a phrase of the unigrams and kept another, while the
\* batch embedding of the bigrams failed
C4_Witness ==
    /\ nPc = "done" /\ nBert.loaded /\ nBert.kw_ok
    /\ nBert.failed_orders = {"bigrams"}
    /\ nRet.final["unigrams"] # <<>>
    /\ nRet.final["unigrams"] # Unfiltered("unigrams")
    /\ nRet.final["bigrams"] # <<>>

(***************************************************************************)
(* C5: the result of an analysis whose relevance filtering was skipped     *)
(* (provider disabled) differs, in something other than the contents of    *)
(* its tables, from the result of the same analysis with filtering.        *)
(***************************************************************************)
\* what the returned tuple holds besides the contents of its tables
NonTableFields(ret) == [sig |-> ret.sig]

C5_DegradedIsObservable ==
    (nPc = "done" /\ ~nBert.loaded) =>
        NonTableFields(nRet) #
            NonTableFields(get_significant_ngrams(nArgs,
                [nBert EXCEPT !.loaded = TRUE, !.kw_ok = TRUE,
                              !.failed_orders = {}]))

(***************************************************************************)
(* C6: for every keyword and every combination of present and absent       *)
(* title, H1, meta description, headings and body, and every similarity    *)
(* in [-1, 1], calculate_seo_weighted_score returns a value in [0, 100].   *)
(***************************************************************************)
C6_ScoreInRange ==
    sPc = "done" => (FracLe(Zero, sOut) /\ FracLe(sOut, Frac(100, 1)))

\* a page with a negative similarity on one field and a positive one on
\* another was scored
C6_Witness ==
    /\ sPc = "done" /\ sIn.kw_ok
    /\ NonBlank(sIn.title) /\ sIn.title.ok /\ sIn.title.cos < 0
    /\ NonBlank(sIn.body_content) /\ sIn.body_content.ok
    /\ sIn.body_content.cos = 100
    /\ sOut # Zero

(***************************************************************************)
(* C7: the score is 100 x (sum over the present, non-blank fields of       *)
(* weight x max(0, similarity)) / (sum of the weights of those fields),    *)
(* with the weights 0.25, 0.20, 0.15, 0.15, 0.25; absent, empty and        *)
(* whitespace-only fields count in neither sum, so a page with only a      *)
(* title scores 100 x max(0, title similarity).  Stated for the calls in   *)
(* which the embedding model encodes the keyword and every present field.  *)
(***************************************************************************)
\* the fields the claim calls present
ClaimHeadingsPresent ==
    \E l \in {sIn.h2_tags, sIn.h3_tags} :
        ~l.isNone /\ \E i \in 1..Len(l.items) : l.items[i] \notin {None, "", " "}

ClaimField ==
    [title |-> sIn.title, h1 |-> sIn.h1,
     meta_description |-> sIn.meta_description,
     headings |-> IF ClaimHeadingsPresent THEN sIn.headings ELSE NoText(None),
     body |-> sIn.body_content]

ClaimPresent ==
    {k \in DOMAIN ClaimField : ClaimField[k].str \notin {None, "", " "}}

ClaimWeights ==
    [title |-> 25, h1 |-> 20, meta_description |-> 15, headings |-> 15,
     body |-> 25]

AllEncoded == sIn.kw_ok /\ \A k \in ClaimPresent : ClaimField[k].ok

C7_WeightedMean ==
    (sPc = "done" /\ AllEncoded /\ ClaimPresent # {}) =>
        /\ sOut.num * SumOver(ClaimPresent, ClaimWeights)
             = sOut.den * SumOver(ClaimPresent, [k \in ClaimPresent |->
                   ClaimWeights[k] * Max2(0, ClaimField[k].cos)])
        /\ ClaimPresent = {"title"} => sOut = Frac(Max2(0, sIn.title.cos), 1)

\* a page with a title and headings only, the other fields absent, empty
\* or blank
C7_Witness ==
    /\ sPc = "done" /\ AllEncoded
    /\ ClaimPresent = {"title", "headings"}
    /\ sIn.h1.str = "" /\ sIn.meta_description.str = " "
    /\ sIn.body_content.str = None
    /\ sIn.title.cos = 100 /\ sIn.headings.cos = 40
    /\ sOut = Frac(100 * 25 + 40 * 15, 40)

(***************************************************************************)
(* Claims on SemanticScoreEngine (SpecEngine)                              *)
(***************************************************************************)
\* the analysis of the keyword of index eIdx went through every stage and
\* its result has just been appended
AnalysisReturned ==
    /\ ePc = "loop"
    /\ eIdx > 0
    /\ eOutcome[eIdx] = "returned"

\* C1: analyze_keywords returns exactly one result per input keyword, in
\* input order, each carrying its keyword; a keyword whose analysis fails
\* (no SERP result, no content for any URL, an exception raised inside a
\* stage) gets an error annotation, and the keywords after it are still
\* analysed: between two keywords the list holds one result per keyword
\* started so far, and the call returns only once every keyword has its
\* result.
C1_OneResultPerKeyword ==
    ePc \in {"loop", "returned"} =>
        /\ Len(eResults) = eIdx
        /\ Len(eOutcome) = eIdx
        /\ ePc = "returned" => eIdx = Len(eIn.keywords)
        /\ \A i \in 1..eIdx :
              /\ eResults[i].keyword = eIn.keywords[i]
              /\ eOutcome[i] # "returned" => eResults[i].error # None

\* a call returned for two keywords: the analysis of the first raised, the
\* second was analysed to the end
C1_Witness ==
    /\ ePc = "returned"
    /\ Len(eIn.keywords) = 2
    /\ eOutcome = <<"raised", "returned">>
    /\ eResults[1].error # None
    /\ eResults[2].error = None
    /\ eResults[2].top_results # <<>>

\* the competitor pages that were analysed: the URLs, other than the
\* domain's, that were fetched with content
CompetitorUrls ==
    {u \in DOMAIN eFetch.url_data :
        /\ Truthy(eFetch.url_data[u].content)
        /\ ~(DomainUrl.kind = "url" /\ u = DomainUrl.url)}

\* the table of the order t of the page fetched at u
TableAt(u, t) == PageNgrams(eFetch.url_data[u].content).final[t]

\* the frequency of p in that table, 0 when it is not there
FreqAt(u, t, p) ==
    IF p \in KeySet(TableAt(u, t)) THEN FreqOf(TableAt(u, t), p) ELSE 0

\* the competitor stage has just run on eResult, or eResult is returned
CompetitorsDone == ePc = "diff" \/ AnalysisReturned

\* C8: for every order, the competitor-average table holds exactly the
\* phrases found in the table of at least one competitor page, and maps
\* each of them to the sum of its frequencies over the competitor pages
\* divided by the number of competitor pages analysed.
C8_AverageOverAllCompetitors ==
    CompetitorsDone =>
        /\ AnalysisReturned => eResults[eIdx] = eResult
        /\ \A t \in Orders :
              LET avg == TableOf(eResult.average_competitor_ngrams, t)
                  urls == CompetitorUrls
              IN  /\ KeySet(avg) = UNION {KeySet(TableAt(u, t)) : u \in urls}
                  /\ \A i \in 1..Len(avg) :
                        avg[i].f.num * Cardinality(urls)
                          = avg[i].f.den
                              * SumOver(urls, [u \in urls |->
                                                  FreqAt(u, t, avg[i].p)])

Ph_agence_seo == Word.agence \o <<" ">> \o Word.seo

\* three competitors hold "agence seo" 4, 6 and 8 times and the domain 5
\* times: the average is 6.0 and the differential -1.0
C8_Witness ==
    /\ AnalysisReturned
    /\ eSerp = Serp.example
    /\ Cardinality(CompetitorUrls) = 3
    /\ {FreqAt(u, "bigrams", Ph_agence_seo) : u \in CompetitorUrls} = {4, 6, 8}
    /\ eResult.domain_ngrams # <<>>
    /\ ~eResult.ngram_differential.isNone
    /\ FreqOf(eResult.domain_ngrams["bigrams"], Ph_agence_seo) = 5
    /\ FreqOf(eResult.average_competitor_ngrams["bigrams"], Ph_agence_seo)
          = Frac(6, 1)
    /\ eResult.ngram_differential.d["bigrams"][Ph_agence_seo] = Frac(-1, 1)

\* the differential stage has just run on eResult, or eResult is returned
DiffDone == ePc = "refine" \/ AnalysisReturned

\* the domain's page was fetched with content
DomainAnalysed ==
    /\ DomainUrl.kind = "url"
    /\ DomainUrl.url \in DOMAIN eFetch.url_data
    /\ Truthy(eFetch.url_data[DomainUrl.url].content)

\* what the differential maps for the order t: nothing when it is None
DiffOf(t) ==
    IF eResult.ngram_differential.isNone THEN <<>>
    ELSE TableOf(eResult.ngram_differential.d, t)

\* for the order t the differential maps exactly the phrases of the two
\* tables, each to its domain frequency (0 if absent) minus its competitor
\* average (0 if absent)
DiffIsUnion(t) ==
    LET dom == TableOf(eResult.domain_ngrams, t)
        avg == TableOf(eResult.average_competitor_ngrams, t)
        diff == DiffOf(t)
    IN  /\ DOMAIN diff = KeySet(dom) \cup KeySet(avg)
        /\ \A p \in DOMAIN diff :
              LET f == IF p \in KeySet(dom) THEN FreqOf(dom, p) ELSE 0
                  a == IF p \in KeySet(avg) THEN FreqOf(avg, p)
                       ELSE [num |-> 0, den |-> 1]
              IN  /\ diff[p].den > 0
                  /\ diff[p].num * a.den = (f * a.den - a.num) * diff[p].den
                  /\ p \notin KeySet(avg) => diff[p] = [num |-> f, den |-> 1]
                  /\ p \notin KeySet(dom) =>
                        diff[p] = [num |-> 0 - a.num, den |-> a.den]

\* C9 (as claimed): for every n-gram order the differential maps exactly
\* the union of the phrases of the domain table and of the
\* competitor-average table to the domain frequency (0 if absent) minus the
\* competitor average (0 if absent).
C9_DifferentialCoversUnion ==
    DiffDone => \A t \in Orders : DiffIsUnion(t)

\* C9 (amended): when the domain's page was fetched with content and at
\* least one competitor page was analysed, the differential maps, for every
\* order, exactly the union of the phrases of the two tables to the domain
\* frequency (0 if absent) minus the competitor average (0 if absent);
\* otherwise the differential is None.
C9_DifferentialWhenBothTables ==
    DiffDone =>
        /\ AnalysisReturned => eResults[eIdx] = eResult
        /\ IF DomainAnalysed /\ CompetitorUrls # {}
           THEN /\ ~eResult.ngram_differential.isNone
                /\ DOMAIN eResult.ngram_differential.d = Orders
                /\ \A t \in Orders : DiffIsUnion(t)
           ELSE eResult.ngram_differential.isNone

\* a returned differential with a phrase that only the domain table holds,
\* mapped to its count, and a phrase that only the competitor table holds,
\* mapped to the negative of its average
C9_Witness ==
    /\ AnalysisReturned
    /\ DomainAnalysed
    /\ CompetitorUrls # {}
    /\ ~eResult.ngram_differential.isNone
    /\ \E t \in Orders :
          LET dom == eResult.domain_ngrams[t]
              avg == eResult.average_competitor_ngrams[t]
              diff == eResult.ngram_differential.d[t]
          IN  /\ \E p \in KeySet(dom) \ KeySet(avg) :
                    diff[p] = Frac(FreqOf(dom, p), 1)
              /\ \E p \in KeySet(avg) \ KeySet(dom) :
                    /\ diff[p].num < 0
                    /\ diff[p].num = 0 - FreqOf(avg, p).num

\* the organic items of the SERP whose URL was fetched without content
NoContentItems ==
    {k \in 1..Len(eSerp) :
        /\ eSerp[k].type = "organic"
        /\ eSerp[k].url # NoUrl
        /\ ~Truthy(eFetch.url_data[eSerp[k].url].content)}

\* the competitor-average table is built from the pages of urls alone
AverageIsOver(urls) ==
    \A t \in Orders :
        LET avg == TableOf(eResult.average_competitor_ngrams, t)
        IN  /\ KeySet(avg) = UNION {KeySet(TableAt(u, t)) : u \in urls}
            /\ \A i \in 1..Len(avg) :
                  avg[i].f.num * Cardinality(urls)
                    = avg[i].f.den
                        * SumOver(urls, [u \in urls |-> FreqAt(u, t, avg[i].p)])

\* C10: in an analysis that went through every stage (so that some URL
\* yielded content), the page list is sorted ascending by rank and every
\* organic SERP URL fetched without content is in it at the rank of its
\* SERP item, with a null score on every entry of that URL; if that URL is
\* the domain's the domain n-gram table stays empty, and the competitor
\* aggregate is built from the pages that have content alone.
C10_NoContentPageIsListed ==
    AnalysisReturned =>
        LET pages == eResults[eIdx].top_results
        IN  /\ \A i, j \in 1..Len(pages) :
                  i < j => pages[i].position <= pages[j].position
            /\ \A k \in NoContentItems :
                  /\ \E i \in 1..Len(pages) :
                        /\ pages[i].url = eSerp[k].url
                        /\ pages[i].position = eSerp[k].rank_absolute
                  /\ \A i \in 1..Len(pages) :
                        pages[i].url = eSerp[k].url =>
                            /\ pages[i].semantic_score = NoScore
                            /\ ~Truthy(pages[i].body_content)
                  /\ eSerp[k].url \notin CompetitorUrls
                  /\ (DomainUrl.kind = "url" /\ DomainUrl.url = eSerp[k].url)
                        => eResults[eIdx].domain_ngrams = <<>>
            /\ NoContentItems # {} => AverageIsOver(CompetitorUrls)

\* the second of four organic URLs has no content, the first and the third
\* have: the page list holds it second, with no score
C10_Witness ==
    /\ AnalysisReturned
    /\ eSerp = Serp.example
    /\ NoContentItems = {2}
    /\ Len(eResults[eIdx].top_results) = 4
    /\ eResults[eIdx].top_results[2].url = Url.a
    /\ eResults[eIdx].top_results[2].semantic_score = NoScore
    /\ eResults[eIdx].top_results[1].semantic_score # NoScore
    /\ eResults[eIdx].top_results[3].semantic_score # NoScore
    /\ Cardinality(CompetitorUrls) = 2

(***************************************************************************)
(* Claims on _filter_ngrams_by_relevance called on its own (SpecNgram)     *)
(***************************************************************************)
\* C11: when the BERT provider is disabled (bert_model is None), every
\* call of the relevance filter returns its input tables unmodified: the
\* same phrases with the same frequencies, in the same order, in every
\* n-gram order, whatever embedding of the keyword it is handed.
C11_DisabledFilterIsIdentity ==
    (nPc = "filtered" /\ ~nBert.loaded) =>
        \A t \in Orders :
            /\ Len(nFilter.out[t]) = Len(nFilter.ngrams_dict[t])
            /\ \A i \in 1..Len(nFilter.out[t]) :
                  /\ nFilter.out[t][i].p = nFilter.ngrams_dict[t][i].p
                  /\ nFilter.out[t][i].f = nFilter.ngrams_dict[t][i].f

\* the disabled filter was handed an embedding of the keyword and tables
\* that hold a phrase of similarity below the threshold, which it kept
C11_Witness ==
    /\ nPc = "filtered" /\ ~nBert.loaded
    /\ nFilter.keyword_embedding # None
    /\ \E i \in 1..Len(nFilter.out["unigrams"]) :
          nBert.sim[nFilter.out["unigrams"][i].p] < nArgs.bert_threshold
    /\ nFilter.out["bigrams"] # <<>>

(***************************************************************************)
(* Claims on the failures of the embedding model in                        *)
(* calculate_seo_weighted_score (SpecScore)                                *)
(***************************************************************************)
\* the present fields that the embedding model encodes
ClaimEncoded == {k \in ClaimPresent : ClaimField[k].ok}

\* C12 as stated: calculate_seo_weighted_score returns 0 whenever no field
\* is present or the embedding model fails, also when it fails on some of
\* the fields only, the keyword having been encoded.
C12_ZeroOnAnyFailure ==
    (sPc = "done" /\ (\/ ClaimPresent = {}
                      \/ ~sIn.kw_ok
                      \/ ClaimEncoded # ClaimPresent)) =>
        sOut = Zero

\* C12 as amended: calculate_seo_weighted_score always returns a number;
\* it returns 0 when the keyword is not encoded and when no present field
\* is encoded (no field present, or every present field fails); when the
\* keyword is encoded and only some of the present fields fail, it returns
\* the weighted mean, 100 x sum(weight x max(0, similarity)) / sum(weight),
\* over the present fields that were encoded.
C12_ZeroWhenNothingEncoded ==
    sPc = "done" =>
        /\ sOut.den > 0
        /\ (~sIn.kw_ok \/ ClaimEncoded = {}) => sOut = Zero
        /\ (sIn.kw_ok /\ ClaimEncoded # {}) =>
              sOut.num * SumOver(ClaimEncoded, ClaimWeights)
                = sOut.den * SumOver(ClaimEncoded, [k \in ClaimEncoded |->
                      ClaimWeights[k] * Max2(0, ClaimField[k].cos)])

\* the keyword and the title were encoded, the encoding of the body raised:
\* the score is that of the title alone
C12_Witness ==
    /\ sPc = "done" /\ sIn.kw_ok
    /\ ClaimPresent = {"title", "body"}
    /\ ClaimEncoded = {"title"}
    /\ sIn.title.cos = 100
    /\ sOut = Frac(100, 1)

(***************************************************************************)
(* Claims on the stages of _analyze_keyword (SpecEngine)                   *)
(***************************************************************************)
\* a domain is tracked and no organic item of the SERP has a URL that
\* holds its name, letter case apart
DomainNotInSerp ==
    /\ eIn.domain # NoDomain
    /\ \A k \in 1..Len(eSerp) :
          (eSerp[k].type = "organic" /\ eSerp[k].url # NoUrl) =>
              ~Contains(Lower(eSerp[k].url), Lower(eIn.domain))

\* the URLs that were fetched with content
FetchedUrls ==
    {u \in DOMAIN eFetch.url_data : Truthy(eFetch.url_data[u].content)}

\* C13: when the tracked domain matches no organic SERP URL, the result
\* that an analysis returns after its stages have run has no error
\* annotation; its domain position, score, content, H1, title, n-gram
\* table, keyword density and FAQ questions keep their empty defaults and
\* its domain URL field holds no URL; every page fetched with content has
\* a scored entry in the page list and the competitor-average table is
\* built from all the pages fetched with content.
C13_DomainNotFound ==
    (AnalysisReturned /\ DomainNotInSerp) =>
        LET r == eResults[eIdx]
        IN  /\ r.error = None
            /\ r.domain_position = NoPos
            /\ r.domain_score = NoScore
            /\ r.domain_content = NoContent
            /\ r.domain_h1.str = None
            /\ r.domain_title.str = None
            /\ r.domain_ngrams = <<>>
            /\ r.keyword_density = NoScore
            /\ r.faq_questions = <<>>
            /\ r.domain_url.kind \in {"none", "note"}
            /\ r.domain_url.url = NoUrl
            /\ \A u \in FetchedUrls :
                  \E i \in 1..Len(r.top_results) :
                      /\ r.top_results[i].url = u
                      /\ r.top_results[i].semantic_score # NoScore
            /\ r = eResult
            /\ AverageIsOver(FetchedUrls)

\* the domain x.FR is tracked, the SERP holds a.io and d.io only, both are
\* fetched with content and the competitor-average table is built
C13_Witness ==
    /\ AnalysisReturned /\ DomainNotInSerp
    /\ eSerp = Serp.dup
    /\ FetchedUrls = {Url.a, Url.d}
    /\ eResults[eIdx].domain_url.kind = "note"
    /\ eResults[eIdx].average_competitor_ngrams # <<>>
    /\ Len(eResults[eIdx].top_results) = 4

(***************************************************************************)
(* Claims on the rate limit of DataForSEOClient (SpecRate)                 *)
(***************************************************************************)
\* C14: whatever the interleaving of the tasks that call _async_request,
\* no more than 30 requests are sent within any window of 60 seconds: no
\* request is the 31st of the requests sent in the 60 seconds that end
\* with it.
C14_AtMostCapPerWindow ==
    \A i \in 1..Len(rSent) :
        Cardinality({j \in 1..Len(rSent) :
                        rSent[j] <= rSent[i] /\ rSent[i] - rSent[j] < 600})
            <= 30

(***************************************************************************)
(* Claims on the loop of _async_analyze_all (SpecEngine)                   *)
(***************************************************************************)
\* the stages of _analyze_keyword
Stages ==
    {"search", "fetch", "await", "score", "populate", "domain",
     "competitors", "diff", "refine", "brief"}

\* C15: the keywords are analysed one at a time in list order: while a
\* stage of the keyword of index k runs, the results of the k - 1 keywords
\* before it, and no other, are in the result list; and the progress
\* callback, when there is one, has been called once for each keyword up to
\* k, with the indexes 1..k in increasing order, the length of the list and
\* the keyword, the call for k coming before the first stage of k.
C15_OneKeywordAtATime ==
    ePc # "idle" =>
        /\ ePc \in Stages =>
              /\ eIdx \in 1..Len(eIn.keywords)
              /\ Len(eResults) = eIdx - 1
              /\ eResult.keyword = eIn.keywords[eIdx]
        /\ ePc \notin Stages => Len(eResults) = eIdx
        /\ \A i \in 1..Len(eResults) : eResults[i].keyword = eIn.keywords[i]
        /\ Len(eProgress) = IF eIn.on_progress THEN eIdx ELSE 0
        /\ \A i \in 1..Len(eProgress) :
              /\ eProgress[i].idx = i
              /\ eProgress[i].total = Len(eIn.keywords)
              /\ eProgress[i].kw = eIn.keywords[i]

\* the search of the second keyword is about to start: the result of the
\* first is in the list and the callback was called for both
C15_Witness ==
    /\ ePc = "search" /\ eIdx = 2
    /\ eIn.on_progress
    /\ Len(eResults) = 1
    /\ eResults[1].error = None
    /\ Len(eProgress) = 2
    /\ eProgress[2].idx = 2

\* C16: when the search of a keyword gives no item (an empty list, a failure
\* of the provider, a raised exception), the analysis of the keyword ends
\* there with an error result: the error is set, no fetch task was created
\* and nothing was fetched, and the page list, the scores, the n-gram tables
\* and every other output are at their empty defaults.
C16_NoSerpIsTerminal ==
    (ePc \notin {"idle", "search"} /\ eIdx > 0 /\ eSerp = <<>>) =>
        /\ ePc \in {"loop", "returned"}
        /\ Len(eResults) = eIdx
        /\ eOutcome[eIdx] \in {"no_results", "raised"}
        /\ eTasks = <<>>
        /\ eFetch = FetchStarted(<<>>)
        /\ eResults[eIdx].error # None
        /\ eOutcome[eIdx] = "no_results" =>
              eResults[eIdx].error = "No search results found."
        /\ eResults[eIdx] =
              SemanticScoreResult(eIn.keywords[eIdx], eResults[eIdx].error)

\* the search of a keyword returned nothing and the error result is in the
\* list; the keyword before it was analysed to the end
C16_Witness ==
    /\ ePc = "loop" /\ eIdx = 2
    /\ eSerp = <<>>
    /\ eOutcome = <<"returned", "no_results">>
    /\ eResults[2].error = "No search results found."
    /\ eResults[2].top_results = <<>>
    /\ eResults[1].top_results # <<>>

\* the URL and the rank of every entry of a page list, in order
UrlsAndRanks(top_results) ==
    [k \in 1..Len(top_results) |->
        <<top_results[k].url, top_results[k].position>>]

\* C17: when no URL of a keyword gives content, the analysis ends early
\* with an error result whose scores and n-gram tables are at their
\* defaults; its page list holds placeholder entries with no score and no
\* content, in ascending order of rank, and they are the entries of the
\* fetched organic results, the ones the page list of a completed analysis
\* holds for the same search items.
C17_PlaceholdersAreFetchedPages ==
    (ePc = "loop" /\ eIdx > 0 /\ eOutcome[eIdx] = "no_content") =>
        LET r == eResults[eIdx]
            full == populate_results(SemanticScoreResult(r.keyword, None),
                                     eSerp, eFetch.url_data, DomainUrl)
        IN  /\ r.error # None
            /\ [r EXCEPT !.top_results = <<>>] =
                   SemanticScoreResult(r.keyword, r.error)
            /\ \A k \in 1..Len(r.top_results) :
                  /\ r.top_results[k].semantic_score = NoScore
                  /\ r.top_results[k].body_content = NoContent
            /\ \A k \in 1..(Len(r.top_results) - 1) :
                  r.top_results[k].position <= r.top_results[k + 1].position
            /\ UrlsAndRanks(r.top_results) = UrlsAndRanks(full.top_results)

\* C19: once the search of a keyword gave items and some URL gave content
\* (neither terminal case), the analysis of the keyword goes through every
\* later stage whatever fails in one of them: the result appended for the
\* keyword holds the page list with the score of every page that gave
\* content, and the two GPT stages ran (each sets its field, to None when
\* it fails).
C19_StageFailureIsNotFatal ==
    (/\ ePc = "loop" /\ eIdx > 0
     /\ eSerp # <<>>
     /\ eFetch.url_order # <<>>) =>
        LET r == eResults[eIdx]
        IN  /\ Len(r.top_results) = Len(Listed(eSerp, eFetch.url_data))
            /\ \A k \in 1..Len(r.top_results) :
                  Truthy(r.top_results[k].body_content) =>
                      r.top_results[k].semantic_score # NoScore
            /\ r.refined_ngrams # "unset"
            /\ r.seo_brief # "unset"

\* C20: when an embedding model cannot be loaded, making the TextAnalyzer
\* still completes (the constructor does not raise) and the provider is
\* disabled: with the BERT model not loaded, every later call of the
\* relevance filter returns the tables it was given.
C20_LoadFailureDisables ==
    /\ nPc # "raised"
    /\ (nPc = "filtered" /\ ~nBert.loaded) =>
          nFilter.out = nFilter.ngrams_dict

\* the organic items of the SERP whose URL holds the name of the tracked
\* domain, letter case apart, by their index in search_items
DomainMatches ==
    {k \in 1..Len(eSerp) :
        /\ eSerp[k].type = "organic" /\ eSerp[k].url # NoUrl
        /\ eIn.domain # NoDomain
        /\ Contains(Lower(eSerp[k].url), Lower(eIn.domain))}

OrganicUrls == {UrlsToParse(eSerp)[k] : k \in 1..Len(UrlsToParse(eSerp))}

\* what _fetch_all and the scoring stage make of one URL fetched on its
\* own with the outcome env: [data, listed, competitor]
FetchedAlone(u, env) ==
    LET f == AwaitTask(FetchStarted(<<u>>), u, DomainUrl, eIn.use_onpage, env)
    IN  [data |-> f.url_data[u],
         scored |-> ScoreAll(f.url_data, f.url_order)[u],
         listed |-> f.url_order # <<>>,
         competitor |-> f.competitor_contents # <<>>]

\* C22: a fetch task is started for every organic URL before the first is
\* awaited, and every organic URL gets its entry: whatever happens to the
\* fetches of the other URLs (content, no content, an exception, a
\* malformed value), the content, the headings, the method tag, the score
\* and the part in the scoring and in the competitor contents of a URL are
\* those of that URL fetched on its own, a fetch that fails leaving a
\* placeholder for its URL only.
C22_FetchesAreIndependent ==
    /\ ePc = "await" =>
          /\ eFetch.started = Len(UrlsToParse(eSerp))
          /\ {eTasks[k] : k \in 1..Len(eTasks)} \cup DOMAIN eFetch.url_data
                = OrganicUrls
    /\ ePc \in {"score", "populate"} =>
          /\ DOMAIN eFetch.url_data = OrganicUrls
          /\ \A u \in OrganicUrls :
                \E env \in FetchEnvs :
                    LET alone == FetchedAlone(u, env)
                    IN  /\ eFetch.url_data[u] =
                              IF ePc = "score" THEN alone.data
                              ELSE alone.scored
                        /\ alone.listed <=>
                              \E k \in 1..Len(eFetch.url_order) :
                                  eFetch.url_order[k] = u
                        /\ alone.competitor <=>
                              \E k \in 1..Len(eFetch.competitor_contents) :
                                  eFetch.competitor_contents[k].url = u

\* the fetch of X.fr/1 failed and left a placeholder; a.io, fetched after
\* it, has its content and its score
C22_Witness ==
    /\ ePc = "populate"
    /\ eSerp = Serp.short
    /\ eFetch.url_data[Url.x1] = empty_url_data
    /\ Truthy(eFetch.url_data[Url.a].content)
    /\ eFetch.url_data[Url.a].score # NoScore

\* the mean of the scores that the scoring stage gave the URLs of urls,
\* 0.0 for no URL
MeanScore(urls) ==
    IF urls = <<>> THEN Zero
    ELSE FracDivInt(FracSum([k \in 1..Len(urls) |->
                                eFetch.url_data[urls[k]].score]),
                    Len(urls))

\* the pages of a page list that have a score, each URL once
ScoredPages(top_results) ==
    LET scored == SelectSeq(top_results,
                            LAMBDA e : e.semantic_score # NoScore)
    IN  DictKeys([k \in 1..Len(scored) |-> scored[k].url])

\* C23: in the result of a completed analysis the aggregate score is the
\* arithmetic mean of the scores of the pages that have a score, each page
\* counted once, and the competitor aggregate score is the mean of the same
\* scores without the domain's own page, 0.0 when no page is left.
C23_AggregatesAreMeans ==
    AnalysisReturned =>
        LET r == eResults[eIdx]
            pages == ScoredPages(r.top_results)
        IN  /\ r.average_score = MeanScore(pages)
            /\ r.average_competitor_score =
                  MeanScore(SelectSeq(pages,
                      LAMBDA u : ~(DomainUrl.kind = "url"
                                   /\ u = DomainUrl.url)))

\* C26: whatever the SERP items, the page list of every result holds at
\* most one entry for a URL.
C26_OneEntryPerUrl ==
    \A n \in 1..Len(eResults) :
        \A i, j \in 1..Len(eResults[n].top_results) :
            eResults[n].top_results[i].url = eResults[n].top_results[j].url
                => i = j

\* C24: every phrase that _dedup_levenshtein retains comes out with the
\* frequency it had in the input, and every phrase it removes has a
\* retained phrase that is similar to it at the threshold or above and at
\* least as frequent; when the two have the same frequency, the retained
\* one comes earlier in the iteration order of the input.
C24_KeptFrequencyAndRepresentative ==
    dPc \in {"once", "twice"} =>
        /\ \A i \in 1..Len(dOut) : \E k \in 1..Len(dIn) : dIn[k] = dOut[i]
        /\ \A k \in 1..Len(dIn) :
              (\A i \in 1..Len(dOut) : dOut[i].p # dIn[k].p) =>
                  \E i \in 1..Len(dOut) :
                      /\ SimilarAtLeast(dOut[i].p, dIn[k].p, dThr)
                      /\ dOut[i].f >= dIn[k].f
                      /\ dOut[i].f = dIn[k].f =>
                            \E j \in 1..(k - 1) : dIn[j].p = dOut[i].p

\* a phrase was removed by a phrase of the same frequency that comes before
\* it in the input, and another by a more frequent phrase that comes after
C24_Witness ==
    /\ dPc = "once"
    /\ Len(dIn) = 3 /\ Len(dOut) = 1
    /\ dIn[1].f < dIn[2].f
    /\ dIn[2].f = dIn[3].f
    /\ dOut[1] = dIn[2]

\* C25: the method tag of every fetched URL tells how its content was
\* obtained: the tag of the direct scrape or the tag of the fallback only
\* with a non-empty content, and the failure tag exactly when there is no
\* content; a page entry with no content has the failure tag.
C25_TagClassifiesOutcome ==
    /\ ePc \in {"await", "score", "populate"} =>
          \A u \in DOMAIN eFetch.url_data :
              LET d == eFetch.url_data[u]
              IN  /\ d.scrape_method \in {"homemade", "onpage", "failed"}
                  /\ d.scrape_method = "homemade" => Truthy(d.content)
                  /\ d.scrape_method = "onpage" => Truthy(d.content)
                  /\ d.scrape_method = "failed" <=> ~Truthy(d.content)
    /\ \A n \in 1..Len(eResults) :
          \A k \in 1..Len(eResults[n].top_results) :
              LET e == eResults[n].top_results[k]
              IN  (eOutcome[n] = "returned" /\ ~Truthy(e.body_content)) =>
                      e.scrape_method = "failed"

\* whether the URL holds the name of the tracked domain, letter case apart
MatchesDomain(u) ==
    eIn.domain # NoDomain /\ Contains(Lower(u), Lower(eIn.domain))

\* C27: the competitor-average n-gram table and the competitor aggregate
\* score of a completed analysis are computed over the pages fetched with
\* content whose URL does not hold the name of the tracked domain, letter
\* case apart: every such page is counted and no page of the domain is.
C27_CompetitorsAreNonDomainPages ==
    AnalysisReturned =>
        /\ AverageIsOver({u \in FetchedUrls : ~MatchesDomain(u)})
        /\ eResults[eIdx].average_competitor_score =
              MeanScore(SelectSeq(ScoredPages(eResults[eIdx].top_results),
                                  LAMBDA u : ~MatchesDomain(u)))

\* C28: in every result, whether the analysis went to its end or ended
\* early, a page entry has a score if and only if its body content is
\* neither None nor empty.
C28_ScoredIffContent ==
    \A n \in 1..Len(eResults) :
        \A k \in 1..Len(eResults[n].top_results) :
            LET e == eResults[n].top_results[k]
            IN  e.semantic_score # NoScore <=> Truthy(e.body_content)

\* a call returned for two keywords: the first analysis went to its end
\* with a scored page and a page without content, the second ended early
\* with placeholders
C28_Witness ==
    /\ ePc = "returned"
    /\ eOutcome = <<"returned", "no_content">>
    /\ \E k \in 1..Len(eResults[1].top_results) :
          eResults[1].top_results[k].semantic_score # NoScore
    /\ \E k \in 1..Len(eResults[1].top_results) :
          ~Truthy(eResults[1].top_results[k].body_content)
    /\ eResults[2].top_results # <<>>

(***************************************************************************)
(* Claims on the cache of the SERP queries (SpecCache)                     *)
(***************************************************************************)
\* C18: once a query (keyword, language, country, count) has returned a
\* non-empty item sequence, a call with the same query returns that
\* sequence, without a network request, as long as the cache entry that
\* held the sequence is not older than expiration_days; and when that entry
\* is older, the call goes to the network.
C18_CachedWithinExpiry ==
    (cLast.called /\ cLast.prev.stamp >= 0) =>
        IF cLast.at - cLast.prev.stamp <= expiration_days
        THEN /\ ~cLast.network
             /\ cLast.ret = [isNone |-> FALSE, items |-> cLast.prev.items]
        ELSE cLast.network

InitWait ==
    WaitInit /\ DedupIdle /\ NgramIdle /\ ScoreIdle /\ EngineIdle
        /\ RateIdle /\ CacheIdle
\* every request has a timeout and every sleep ends, so a call that can
\* take a step takes it
SpecWait == InitWait /\ [][WaitNext]_vars /\ WF_vars(WaitNext)
====
